---- MODULE Spec2Model ----
(***************************************************************************)
(* Command-submission engine of the emulated GeForce accelerator           *)
(* (hw/display/geforce.c): device memory access, DMA address translation,  *)
(* the RAMHT handle resolver, the RAMFC channel context store, the FIFO    *)
(* ring puller and the method dispatcher.                                  *)
(*                                                                         *)
(* A C uint32_t is a pair <<hi, lo>> of 16-bit halves, so that every       *)
(* 32-bit operation (wrapping add, shifts, masks) is computed at its real  *)
(* width; addresses inside device memory are also used as naturals.        *)
(***************************************************************************)
EXTENDS Integers, Sequences, FiniteSets, TLC

VARIABLES
    s,      \* the device: GeForceState and the video memory behind it
    pc,     \* "pull" inside the loop of geforce_fifo_process, else "idle"
    cur,    \* the channel geforce_fifo_process was called for
    log,    \* per channel, the headers decoded and the methods dispatched
    swout,  \* per channel, the live registers when it was last switched out
    obs,    \* what the last operation was given and what it returned
    tick    \* parity of the number of passes of the ring puller's loop

vars == <<s, pc, cur, log, swout, obs, tick>>

-----------------------------------------------------------------------------
(* 32-bit unsigned arithmetic on <<hi, lo>> halves.                        *)

H16 == 2 ^ 16

W(hi, lo) == <<hi, lo>>

Zero == W(0, 0)

\* the uint32_t holding the natural n (n below 2^31)
U32(n) == W(n \div H16, n % H16)

\* the natural a uint32_t holds (defined below 2^31)
Val(w) == w[1] * H16 + w[2]

Pow2(n) == 2 ^ n

Add32(a, b) ==
    LET lo == a[2] + b[2]
    IN  W((a[1] + b[1] + lo \div H16) % H16, lo % H16)

Sub32(a, b) ==
    LET lo == a[2] - b[2]
        br == IF lo < 0 THEN 1 ELSE 0
    IN  W((a[1] - b[1] - br + H16) % H16, (lo + H16) % H16)

Lt32(a, b) == a[1] < b[1] \/ (a[1] = b[1] /\ a[2] < b[2])

\* bitwise operations on bytes, tabulated from their bit-by-bit definition
RECURSIVE AndBits(_, _)
AndBits(x, y) ==
    IF x = 0 \/ y = 0 THEN 0
    ELSE (x % 2) * (y % 2) + 2 * AndBits(x \div 2, y \div 2)

RECURSIVE XorBits(_, _)
XorBits(x, y) ==
    IF x = 0 THEN y
    ELSE IF y = 0 THEN x
    ELSE ((x + y) % 2) + 2 * XorBits(x \div 2, y \div 2)

AndByte == [x \in 0 .. 255 |-> [y \in 0 .. 255 |-> AndBits(x, y)]]

XorByte == [x \in 0 .. 255 |-> [y \in 0 .. 255 |-> XorBits(x, y)]]

And16(x, y) ==
    IF x = 0 \/ y = 0 THEN 0
    ELSE AndByte[x % 256][y % 256] + 256 * AndByte[x \div 256][y \div 256]

Xor16(x, y) ==
    IF x = 0 THEN y
    ELSE IF y = 0 THEN x
    ELSE XorByte[x % 256][y % 256] + 256 * XorByte[x \div 256][y \div 256]

Or16(x, y) == x + y - And16(x, y)

And32(a, b) == W(And16(a[1], b[1]), And16(a[2], b[2]))

Or32(a, b) == W(Or16(a[1], b[1]), Or16(a[2], b[2]))

Xor32(a, b) == W(Xor16(a[1], b[1]), Xor16(a[2], b[2]))

\* a >> n, 0 <= n < 32
Shr32(a, n) ==
    IF n = 0 THEN a
    ELSE IF n < 16
    THEN W(a[1] \div Pow2(n), a[2] \div Pow2(n) + (a[1] % Pow2(n)) * Pow2(16 - n))
    ELSE W(0, a[1] \div Pow2(n - 16))

\* a << n truncated to 32 bits, 0 <= n < 32
Shl32(a, n) ==
    IF n = 0 THEN a
    ELSE IF n < 16
    THEN W((a[1] % Pow2(16 - n)) * Pow2(n) + a[2] \div Pow2(16 - n),
           (a[2] % Pow2(16 - n)) * Pow2(n))
    ELSE W((a[2] % Pow2(32 - n)) * Pow2(n - 16), 0)

-----------------------------------------------------------------------------
(* Device models and the values realize derives from them.                 *)

GEFORCE_3 == 0
GEFORCE_FX_5900 == 1
GEFORCE_6800 == 2

GEFORCE_CHANNEL_COUNT == 32
GEFORCE_SUBCHANNEL_COUNT == 8
GEFORCE_CACHE1_SIZE == 64

\* s->memsize set by geforce_realize: 64, 128 or 256 MiB
memsize(ct) ==
    IF ct = GEFORCE_3 THEN W(\h0400, 0)
    ELSE IF ct = GEFORCE_FX_5900 THEN W(\h0800, 0)
    ELSE W(\h1000, 0)

\* s->ramin_flip = s->memsize - 64
ramin_flip(ct) == Sub32(memsize(ct), U32(64))

\* s->class_mask = s->card_type < 0x40 ? 0x00000FFF : 0x0000FFFF
class_mask(ct) == IF ct < \h40 THEN W(0, \h0FFF) ELSE W(0, \hFFFF)

-----------------------------------------------------------------------------
(* Device memory: s->vram is a zero-filled allocation of memsize bytes.    *)
(* The model keeps the non-zero bytes, keyed by their offset.              *)

Load8(mem, a) == IF a \in DOMAIN mem THEN mem[a] ELSE 0

Store8(mem, a, b) ==
    IF b # 0 THEN (a :> b) @@ mem
    ELSE IF a \in DOMAIN mem THEN [x \in DOMAIN mem \ {a} |-> mem[x]]
    ELSE mem

\* ldl_le_p(s->vram + a)
ldl_le_p(mem, a) ==
    W(Load8(mem, a + 3) * 256 + Load8(mem, a + 2),
      Load8(mem, a + 1) * 256 + Load8(mem, a))

\* stl_le_p(s->vram + a, v)
stl_le_p(mem, a, v) ==
    Store8(Store8(Store8(Store8(mem, a, v[2] % 256), a + 1, v[2] \div 256),
                  a + 2, v[1] % 256),
           a + 3, v[1] \div 256)

\* the w bytes at s->vram + addr lie inside the g_malloc0(s->memsize) block
\* (addr is zero-extended when it is added to the pointer)
in_allocation(ct, addr, w) ==
    /\ Lt32(addr, memsize(ct))
    /\ ~Lt32(Sub32(memsize(ct), addr), U32(w))

\* the bounds test of the vram accessors, in 32-bit arithmetic:
\* addr + (w - 1) < s->memsize
vram_check(ct, addr, w) == Lt32(Add32(addr, U32(w - 1)), memsize(ct))

geforce_vram_read8(st, addr) ==
    IF vram_check(st.card_type, addr, 1) THEN W(0, Load8(st.vram, Val(addr)))
    ELSE Zero

geforce_vram_read16(st, addr) ==
    IF vram_check(st.card_type, addr, 2)
    THEN W(0, Load8(st.vram, Val(addr) + 1) * 256 + Load8(st.vram, Val(addr)))
    ELSE Zero

geforce_vram_read32(st, addr) ==
    IF vram_check(st.card_type, addr, 4) THEN ldl_le_p(st.vram, Val(addr))
    ELSE Zero

geforce_vram_write8(st, addr, val) ==
    IF vram_check(st.card_type, addr, 1)
    THEN [st EXCEPT !.vram = Store8(st.vram, Val(addr), val[2] % 256)]
    ELSE st

geforce_vram_write16(st, addr, val) ==
    IF vram_check(st.card_type, addr, 2)
    THEN [st EXCEPT !.vram = Store8(Store8(st.vram, Val(addr), val[2] % 256),
                                    Val(addr) + 1, val[2] \div 256)]
    ELSE st

geforce_vram_write32(st, addr, val) ==
    IF vram_check(st.card_type, addr, 4)
    THEN [st EXCEPT !.vram = stl_le_p(st.vram, Val(addr), val)]
    ELSE st

\* val64 is <<high word, low word>>
geforce_vram_write64(st, addr, val64) ==
    IF vram_check(st.card_type, addr, 8)
    THEN [st EXCEPT !.vram = stl_le_p(stl_le_p(st.vram, Val(addr), val64[2]),
                                      Val(addr) + 4, val64[1])]
    ELSE st

geforce_ramin_read8(st, addr) ==
    geforce_vram_read8(st, Xor32(addr, ramin_flip(st.card_type)))

geforce_ramin_read32(st, addr) ==
    geforce_vram_read32(st, Xor32(addr, ramin_flip(st.card_type)))

geforce_ramin_write8(st, addr, val) ==
    geforce_vram_write8(st, Xor32(addr, ramin_flip(st.card_type)), val)

geforce_ramin_write32(st, addr, val) ==
    geforce_vram_write32(st, Xor32(addr, ramin_flip(st.card_type)), val)

-----------------------------------------------------------------------------
(* DMA objects: address translation through a descriptor in RAMIN.         *)

\* faulty variant: the base taken from the descriptor's second word
dma_lin_lookup_word1(st, object, addr) ==
    LET adjust == Shr32(geforce_ramin_read32(st, object), 20)
        base == And32(geforce_ramin_read32(st, Add32(object, U32(4))),
                      W(\hFFFF, \hF000))
    IN  Add32(Add32(base, adjust), addr)

\* faulty variant: the page offset taken from the unadjusted address
dma_pt_lookup_rawoffset(st, object, addr) ==
    LET address_adj == Add32(addr, Shr32(geforce_ramin_read32(st, object), 20))
        page_index == Shr32(address_adj, 12)
        page == And32(geforce_ramin_read32(st,
                          Add32(Add32(object, U32(8)), Shl32(page_index, 2))),
                      W(\hFFFF, \hF000))
    IN  Or32(page, And32(addr, W(0, \h0FFF)))

\* faulty variant: the page table taken to start after a 4-byte header
dma_pt_lookup_header4(st, object, addr) ==
    LET address_adj == Add32(addr, Shr32(geforce_ramin_read32(st, object), 20))
        page_offset == And32(address_adj, W(0, \h0FFF))
        page_index == Shr32(address_adj, 12)
        page == And32(geforce_ramin_read32(st,
                          Add32(Add32(object, U32(4)), Shl32(page_index, 2))),
                      W(\hFFFF, \hF000))
    IN  Or32(page, page_offset)

geforce_dma_pt_lookup(st, object, addr) ==
    LET address_adj == Add32(addr, Shr32(geforce_ramin_read32(st, object), 20))
        page_offset == And32(address_adj, W(0, \h0FFF))
        page_index == Shr32(address_adj, 12)
        page == And32(geforce_ramin_read32(st,
                          Add32(Add32(object, U32(8)), Shl32(page_index, 2))),
                      W(\hFFFF, \hF000))
    IN  Or32(page, page_offset)

geforce_dma_lin_lookup(st, object, addr) ==
    LET adjust == Shr32(geforce_ramin_read32(st, object), 20)
        base == And32(geforce_ramin_read32(st, Add32(object, U32(8))),
                      W(\hFFFF, \hF000))
    IN  Add32(Add32(base, adjust), addr)

\* the absolute address every geforce_dma_read*/write* computes first
dma_addr_abs(st, object, addr) ==
    LET flags == geforce_ramin_read32(st, object)
    IN  IF And32(flags, W(0, \h2000)) # Zero
        THEN geforce_dma_lin_lookup(st, object, addr)
        ELSE geforce_dma_pt_lookup(st, object, addr)

\* flags & 0x00020000: the target is guest physical memory, not vram
dma_is_physical(st, object) ==
    And32(geforce_ramin_read32(st, object), W(\h0002, 0)) # Zero

\* Guest physical memory is outside the device: a load from it yields the
\* word phys supplies, a store to it changes no device state.
geforce_dma_read32(st, object, addr, phys) ==
    IF dma_is_physical(st, object) THEN phys
    ELSE geforce_vram_read32(st, dma_addr_abs(st, object, addr))

geforce_dma_write32(st, object, addr, val) ==
    IF dma_is_physical(st, object) THEN st
    ELSE geforce_vram_write32(st, dma_addr_abs(st, object, addr), val)

geforce_dma_write64(st, object, addr, val64) ==
    IF dma_is_physical(st, object) THEN st
    ELSE geforce_vram_write64(st, dma_addr_abs(st, object, addr), val64)

-----------------------------------------------------------------------------
(* RAMFC: the per-channel context records.                                 *)

geforce_ramfc_address(st, chid, offset) ==
    LET ramfc == IF st.card_type < \h40
                 THEN Shl32(And32(st.fifo_ramfc, W(0, \h0FFF)), 8)
                 ELSE Shl32(And32(st.fifo_ramfc, W(0, \h0FFF)), 16)
        ramfc_ch_size == IF st.card_type < \h40 THEN \h40 ELSE \h80
    IN  Add32(Add32(ramfc, U32(chid * ramfc_ch_size)), U32(offset))

geforce_ramfc_write32(st, chid, offset, value) ==
    geforce_ramin_write32(st, geforce_ramfc_address(st, chid, offset), value)

geforce_ramfc_read32(st, chid, offset) ==
    geforce_ramin_read32(st, geforce_ramfc_address(st, chid, offset))

-----------------------------------------------------------------------------
(* RAMHT: the handle table.                                                *)

ramht_addr(st) == Shl32(And32(st.fifo_ramht, W(0, \h0FFF)), 8)

ramht_bits(st) == (st.fifo_ramht[1] % 256) + 9

\* 1 << ramht_bits << 3 (defined for ramht_bits < 29)
ramht_size(st) == Shl32(Shl32(U32(1), ramht_bits(st)), 3)

\* while (x) { hash ^= x & ((1 << bits) - 1); x >>= bits; }
RECURSIVE ramht_fold(_, _, _)
ramht_fold(x, bits, hash) ==
    IF x = Zero THEN hash
    ELSE ramht_fold(Shr32(x, bits), bits,
                    Xor32(hash, And32(x, Sub32(Shl32(U32(1), bits), U32(1)))))

\* the byte offset of the slot the probe starts at
ramht_hash(st, handle, chid) ==
    LET bits == ramht_bits(st)
        folded == ramht_fold(handle, bits, Zero)
    IN  Shl32(Xor32(folded, Shl32(U32(chid % 16), bits - 4)), 3)

ctx_chid(ct, context) ==
    IF ct < \h40 THEN Shr32(context, 24)[2] % 32
    ELSE Shr32(context, 23)[2] % 32

\* faulty variant: the object field taken without its shift by 4
ctx_object_unshifted(ct, context) ==
    IF ct < \h40 THEN And32(context, W(0, \hFFFF))
    ELSE And32(context, W(\h000F, \hFFFF))

ctx_object(ct, context) ==
    IF ct < \h40 THEN Shl32(And32(context, W(0, \hFFFF)), 4)
    ELSE Shl32(And32(context, W(\h000F, \hFFFF)), 4)

ctx_engine(ct, context) ==
    IF ct < \h40 THEN Shr32(context, 16)[2] % 256
    ELSE Shr32(context, 20)[2] % 8

\* faulty variant: the probe runs past the end of the table, no wraparound
ramht_it_nowrap(size, hash, k) == U32(Val(hash) + 8 * k)

\* The offset "it" holds in the k-th pass of the do-while loop: it starts
\* at hash and each pass adds 8, going back to 0 when it reaches the table
\* size (hash is a multiple of 8 below the table size).
ramht_it(size, hash, k) ==
    LET lin == Val(hash) + 8 * k
    IN  U32(IF lin >= Val(size) THEN lin - Val(size) ELSE lin)

\* the test of one pass: the slot holds the handle and its context word
\* names the requesting channel
ramht_match(st, handle, chid, slot_addr) ==
    /\ geforce_ramin_read32(st, slot_addr) = handle
    /\ chid = ctx_chid(st.card_type,
                       geforce_ramin_read32(st, Add32(slot_addr, U32(4))))

\* The first pass in lo .. hi-1 whose test succeeds, or -1.  The passes
\* are tried in loop order; the range is halved only to bound the depth of
\* the evaluation.  tab is <<ramht_addr, ramht_size, hash>>.
RECURSIVE ramht_first(_, _, _, _, _, _)
ramht_first(st, handle, chid, tab, lo, hi) ==
    IF hi - lo = 1
    THEN IF ramht_match(st, handle, chid,
                        Add32(tab[1], ramht_it(tab[2], tab[3], lo)))
         THEN lo ELSE -1
    ELSE LET mid == (lo + hi) \div 2
             k == ramht_first(st, handle, chid, tab, lo, mid)
         IN  IF k >= 0 THEN k
             ELSE ramht_first(st, handle, chid, tab, mid, hi)

\* geforce_ramht_lookup.  object and engine are the caller's variables,
\* written only on a match; found tells a match from the logged failure;
\* probes counts the passes of the loop, which ends when "it" is back at
\* hash, after one pass per slot.
geforce_ramht_lookup(st, handle, chid, object, engine) ==
    LET hash == ramht_hash(st, handle, chid)
        size == ramht_size(st)
        base == ramht_addr(st)
        slots == Val(size) \div 8
        k == ramht_first(st, handle, chid, <<base, size, hash>>, 0, slots)
        it == ramht_it(size, hash, k)
        context == geforce_ramin_read32(st, Add32(Add32(base, it), U32(4)))
    IN  IF k >= 0
        THEN [found |-> TRUE, object |-> ctx_object(st.card_type, context),
              engine |-> ctx_engine(st.card_type, context),
              probes |-> k + 1, at |-> it]
        ELSE [found |-> FALSE, object |-> object, engine |-> engine,
              probes |-> slots, at |-> hash]

-----------------------------------------------------------------------------
(* The device record (GeForceState) after realize and reset.               *)

Channels == 0 .. GEFORCE_CHANNEL_COUNT - 1
Subchannels == 0 .. GEFORCE_SUBCHANNEL_COUNT - 1

GeForceSubchannel0 == [object |-> Zero, engine |-> 0, notifier |-> Zero]

GeForceChannel0 ==
    [subr_return |-> Zero, subr_active |-> FALSE,
     dma_state |-> [mthd |-> 0, subc |-> 0, mcnt |-> 0, ni |-> FALSE],
     schs |-> [i \in Subchannels |-> GeForceSubchannel0],
     notify_pending |-> FALSE, notify_type |-> Zero,
     rop |-> 0, clip_yx |-> Zero, clip_hw |-> Zero,
     m2mf_src |-> Zero, m2mf_dst |-> Zero,
     m2mf_src_offset |-> Zero, m2mf_dst_offset |-> Zero,
     m2mf_src_pitch |-> Zero, m2mf_dst_pitch |-> Zero,
     m2mf_line_length |-> Zero, m2mf_line_count |-> Zero,
     m2mf_format |-> Zero]

geforce_reset(ct) ==
    [card_type |-> ct, vram |-> << >>,
     mc_intr_en |-> Zero,
     bus_intr |-> Zero, bus_intr_en |-> Zero,
     fifo_intr |-> Zero, fifo_intr_en |-> Zero,
     graph_intr |-> Zero, graph_intr_en |-> Zero,
     graph_nsource |-> Zero, graph_notify |-> Zero,
     crtc_intr |-> Zero, crtc_intr_en |-> Zero,
     irq |-> FALSE,
     fifo_ramht |-> Zero, fifo_ramfc |-> Zero,
     fifo_cache1_push1 |-> Zero,
     fifo_cache1_put |-> Zero, fifo_cache1_get |-> Zero,
     fifo_cache1_pull0 |-> Zero,
     fifo_cache1_dma_instance |-> Zero,
     fifo_cache1_dma_put |-> Zero, fifo_cache1_dma_get |-> Zero,
     fifo_cache1_ref_cnt |-> Zero, fifo_cache1_semaphore |-> Zero,
     fifo_cache1_method |-> [i \in 0 .. GEFORCE_CACHE1_SIZE - 1 |-> Zero],
     fifo_cache1_data |-> [i \in 0 .. GEFORCE_CACHE1_SIZE - 1 |-> Zero],
     channels |-> [c \in Channels |-> GeForceChannel0],
     acquire_active |-> FALSE]

\* pci_set_irq(level && (mc_intr_en & 1))
geforce_update_irq(st) ==
    LET level == \/ And32(st.bus_intr, st.bus_intr_en) # Zero
                 \/ And32(st.fifo_intr, st.fifo_intr_en) # Zero
                 \/ And32(st.graph_intr, st.graph_intr_en) # Zero
                 \/ And32(st.crtc_intr, st.crtc_intr_en) # Zero
    IN  [st EXCEPT !.irq = level /\ st.mc_intr_en[2] % 2 = 1]

-----------------------------------------------------------------------------
(* Class handlers.                                                         *)

geforce_execute_clip(ch, method, param) ==
    IF method = \h0c0 THEN [ch EXCEPT !.clip_yx = param]
    ELSE IF method = \h0c1 THEN [ch EXCEPT !.clip_hw = param]
    ELSE ch

\* The register methods of the memory-to-memory class; method 0x0ca, which
\* starts the transfer, is m2mf_start.
geforce_execute_m2mf(ch, method, param) ==
    CASE method = \h061 -> [ch EXCEPT !.m2mf_src = param]
      [] method = \h062 -> [ch EXCEPT !.m2mf_dst = param]
      [] method = \h0c3 -> [ch EXCEPT !.m2mf_src_offset = param]
      [] method = \h0c4 -> [ch EXCEPT !.m2mf_dst_offset = param]
      [] method = \h0c5 -> [ch EXCEPT !.m2mf_src_pitch = param]
      [] method = \h0c6 -> [ch EXCEPT !.m2mf_dst_pitch = param]
      [] method = \h0c7 -> [ch EXCEPT !.m2mf_line_length = param]
      [] method = \h0c8 -> [ch EXCEPT !.m2mf_line_count = param]
      [] method = \h0c9 -> [ch EXCEPT !.m2mf_format = param]
      [] method \notin (\h0c3 .. \h0ca) \cup {\h061, \h062} -> ch

\* faulty variant: the method compared as a byte offset
execute_rop_byteoffset(ch, method, param) ==
    IF method = \h300 THEN [ch EXCEPT !.rop = param[2] % 256] ELSE ch

\* ch->rop is a uint8_t: the parameter is truncated to its low byte
geforce_execute_rop(ch, method, param) ==
    IF method = \h0c0 THEN [ch EXCEPT !.rop = param[2] % 256] ELSE ch

-----------------------------------------------------------------------------
(* The class handlers that start graphics operations.  The operations      *)
(* themselves (the rasteriser) are outside the engine: a call of           *)
(* geforce_execute_graphics_op is recorded, with the channel's class state *)
(* it was given, in the field gfx of the channel.                          *)

\* ch->ifc_words when no buffer is allocated
NullBuffer == [null |-> TRUE, len |-> Zero, data |-> << >>]

\* g_new0(uint32_t, n): NULL when n is 0, else n zeroed words; data holds
\* the words stored so far, in index order
g_new0(n) ==
    IF n = Zero THEN NullBuffer ELSE [null |-> FALSE, len |-> n, data |-> << >>]

\* the fields of GeForceChannel the 2D class handlers keep, as
\* geforce_reset's memset leaves them
Class2dFields ==
    [gfx |-> << >>,
     s2d_img_src |-> Zero, s2d_img_dst |-> Zero,
     s2d_color_fmt |-> Zero, s2d_color_bytes |-> 0,
     s2d_pitch |-> Zero, s2d_ofs_src |-> Zero, s2d_ofs_dst |-> Zero,
     ifc_color_key_enable |-> FALSE,
     ifc_operation |-> Zero, ifc_color_fmt |-> Zero, ifc_color_bytes |-> 0,
     ifc_yx |-> Zero, ifc_dhw |-> Zero, ifc_shw |-> Zero,
     ifc_words_ptr |-> Zero, ifc_words_left |-> Zero,
     ifc_words |-> NullBuffer,
     ifc_upload |-> FALSE, ifc_upload_offset |-> Zero,
     gdi_operation |-> Zero, gdi_color_fmt |-> Zero, gdi_mono_fmt |-> Zero,
     gdi_rect_color |-> Zero, gdi_clip_yx0 |-> Zero, gdi_clip_yx1 |-> Zero,
     gdi_rect_xy |-> Zero, gdi_rect_wh |-> Zero,
     gdi_rect_yx0 |-> Zero, gdi_rect_yx1 |-> Zero,
     blit_color_key_enable |-> FALSE, blit_operation |-> Zero,
     blit_syx |-> Zero, blit_dyx |-> Zero, blit_hw |-> Zero,
     m2mf_buffer_notify |-> Zero]

geforce_execute_graphics_op(ch, op_name) ==
    [ch EXCEPT !.gfx = Append(@, [op |-> op_name,
                                  ch |-> [ch EXCEPT !.gfx = << >>]])]

\* the product of two uint16_t values as a uint32_t (it is below 2^32)
Mul16(w, h) ==
    LET wl == w % 256
        wh == w \div 256
        hl == h % 256
        hh == h \div 256
    IN  Add32(Add32(U32(wl * hl), Shl32(U32(wh * hl + wl * hh), 8)),
              Shl32(U32(wh * hh), 16))

\* a * n in uint32_t arithmetic, n a small natural
RECURSIVE MulSmall(_, _)
MulSmall(a, n) == IF n = 0 THEN Zero ELSE Add32(a, MulSmall(a, n - 1))

\* ALIGN(x, a) for a power of two a up to 2^16
ALIGN(x, a) == And32(Add32(x, U32(a - 1)), W(\hFFFF, H16 - a))

geforce_update_color_bytes(s2d_color_fmt, color_fmt) ==
    IF s2d_color_fmt = U32(1) THEN 1
    ELSE IF color_fmt \in {U32(1), U32(2), U32(3)} THEN 2
    ELSE 4

geforce_execute_surf2d(ch, method, param) ==
    CASE method = \h061 -> [ch EXCEPT !.s2d_img_src = param]
      [] method = \h062 -> [ch EXCEPT !.s2d_img_dst = param]
      [] method = \h0c0 ->
            [ch EXCEPT !.s2d_color_fmt = param,
                       !.s2d_color_bytes =
                           IF param = U32(1) THEN 1
                           ELSE IF param = U32(4) THEN 2
                           ELSE 4]
      [] method = \h0c1 -> [ch EXCEPT !.s2d_pitch = param]
      [] method = \h0c2 -> [ch EXCEPT !.s2d_ofs_src = param]
      [] method = \h0c3 -> [ch EXCEPT !.s2d_ofs_dst = param]
      [] method \notin {\h061, \h062} \cup (\h0c0 .. \h0c3) -> ch

geforce_execute_gdi(ch, method, param) ==
    CASE method = \h0bf -> [ch EXCEPT !.gdi_operation = param]
      [] method = \h0c0 -> [ch EXCEPT !.gdi_color_fmt = param]
      [] method = \h0c1 -> [ch EXCEPT !.gdi_mono_fmt = param]
      [] method = \h0ff -> [ch EXCEPT !.gdi_rect_color = param]
      [] method = \h17d -> [ch EXCEPT !.gdi_clip_yx0 = param]
      [] method = \h17e -> [ch EXCEPT !.gdi_clip_yx1 = param]
      [] method = \h17f -> [ch EXCEPT !.gdi_rect_color = param]
      [] method \in \h100 .. \h13f ->
            IF method % 2 = 1
            THEN geforce_execute_graphics_op(
                     [ch EXCEPT !.gdi_rect_wh = param], "fillrect")
            ELSE [ch EXCEPT !.gdi_rect_xy = param]
      [] method \in \h180 .. \h1bf ->
            IF method % 2 = 1
            THEN geforce_execute_graphics_op(
                     [ch EXCEPT !.gdi_rect_yx1 = param], "fillrect_clipped")
            ELSE [ch EXCEPT !.gdi_rect_yx0 = param]
      [] method \notin {\h0bf, \h0c0, \h0c1, \h0ff} \cup (\h100 .. \h13f)
                       \cup (\h17d .. \h1bf) -> ch

\* faulty variant: the copy is started before its size is stored
execute_imageblit_early(st, chid, method, param) ==
    LET ch == st.channels[chid]
    IN  [st EXCEPT !.channels[chid] =
            CASE method = \h061 ->
                    [ch EXCEPT !.blit_color_key_enable =
                        geforce_ramin_read32(st, param)[2] % 256 # \h30]
              [] method = \h0bf -> [ch EXCEPT !.blit_operation = param]
              [] method = \h0c0 -> [ch EXCEPT !.blit_syx = param]
              [] method = \h0c1 -> [ch EXCEPT !.blit_dyx = param]
              [] method = \h0c2 ->
                    [geforce_execute_graphics_op(ch, "copyarea")
                     EXCEPT !.blit_hw = param]
              [] method \notin {\h061, \h0bf, \h0c0, \h0c1, \h0c2} -> ch]

geforce_execute_imageblit(st, chid, method, param) ==
    LET ch == st.channels[chid]
    IN  [st EXCEPT !.channels[chid] =
            CASE method = \h061 ->
                    [ch EXCEPT !.blit_color_key_enable =
                        geforce_ramin_read32(st, param)[2] % 256 # \h30]
              [] method = \h0bf -> [ch EXCEPT !.blit_operation = param]
              [] method = \h0c0 -> [ch EXCEPT !.blit_syx = param]
              [] method = \h0c1 -> [ch EXCEPT !.blit_dyx = param]
              [] method = \h0c2 ->
                    geforce_execute_graphics_op(
                        [ch EXCEPT !.blit_hw = param], "copyarea")
              [] method \notin {\h061, \h0bf, \h0c0, \h0c1, \h0c2} -> ch]

\* case 0x0c3 of geforce_execute_ifc: the size method
ifc_size(ch, param) ==
    LET ch1 == [ch EXCEPT !.ifc_shw = param,
                          !.ifc_upload = /\ param = W(\h1000, \h0400)
                                         /\ ch.ifc_dhw = W(\h1000, \h0400)
                                         /\ ch.s2d_color_fmt = U32(\hB)
                                         /\ ch.s2d_pitch = W(\h1000, \h1000)]
        dx == ch.ifc_yx[2]
        dy == ch.ifc_yx[1]
        width == param[2]
        height == param[1]
        wordCount ==
            Shr32(ALIGN(MulSmall(Mul16(width, height), ch.ifc_color_bytes), 4), 2)
    IN  IF ch1.ifc_upload
        THEN [ch1 EXCEPT !.ifc_upload_offset =
                 Add32(ch.s2d_ofs_dst,
                       Or32(Shl32(W(0, dy), 12), Shl32(W(0, dx), 2)))]
        ELSE [ch1 EXCEPT !.ifc_words_ptr = Zero,
                         !.ifc_words_left = wordCount,
                         !.ifc_words = g_new0(wordCount)]

\* The store ch->ifc_words[ch->ifc_words_ptr++] = param of a data word has
\* no allocated word to go to: it is undefined behaviour.
ifc_store_outside(ch) ==
    \/ ch.ifc_words.null
    \/ ~ Lt32(ch.ifc_words_ptr, ch.ifc_words.len)

\* A data word in buffered mode.  A store that has no allocated word to go
\* to changes no word of the buffer; geforce_execute_ifc goes on after it.
ifc_data(ch, param) ==
    LET ch1 == [ch EXCEPT !.ifc_words.data =
                              IF ifc_store_outside(ch) THEN @
                              ELSE Append(@, param),
                          !.ifc_words_ptr = Add32(@, U32(1)),
                          !.ifc_words_left = Sub32(@, U32(1))]
    IN  IF ch1.ifc_words_left = Zero
        THEN [geforce_execute_graphics_op(ch1, "ifc")
              EXCEPT !.ifc_words = NullBuffer]
        ELSE ch1

geforce_execute_ifc(st, chid, method, param) ==
    LET ch == st.channels[chid]
        set(ch1) == [st EXCEPT !.channels[chid] = ch1]
    IN  CASE method = \h061 ->
                set([ch EXCEPT !.ifc_color_key_enable =
                        geforce_ramin_read32(st, param)[2] % 256 # \h30])
          [] method = \h0bf -> set([ch EXCEPT !.ifc_operation = param])
          [] method = \h0c0 ->
                set([ch EXCEPT !.ifc_color_fmt = param,
                               !.ifc_color_bytes =
                                   geforce_update_color_bytes(
                                       ch.s2d_color_fmt, param)])
          [] method = \h0c1 -> set([ch EXCEPT !.ifc_yx = param])
          [] method = \h0c2 -> set([ch EXCEPT !.ifc_dhw = param])
          [] method = \h0c3 -> set(ifc_size(ch, param))
          [] method \in \h100 .. \h7ff ->
                IF ch.ifc_upload
                THEN [geforce_dma_write32(st, ch.s2d_img_dst,
                                          ch.ifc_upload_offset, param)
                      EXCEPT !.channels[chid].ifc_upload_offset =
                                 Add32(@, U32(4))]
                ELSE set(ifc_data(ch, param))
          [] method \notin {\h061, \h0bf} \cup (\h0c0 .. \h0c3)
                           \cup (\h100 .. \h7ff) -> st

\* case 0x0ca of geforce_execute_m2mf: the transfer is started and its
\* completion written to the subchannel's notifier
m2mf_start(st, chid, subc, param, now) ==
    LET ch == st.channels[chid]
        notifier == ch.schs[subc].notifier
        st1 == [st EXCEPT !.channels[chid] =
                   geforce_execute_graphics_op(
                       [ch EXCEPT !.m2mf_buffer_notify = param], "m2mf")]
    IN  IF geforce_ramin_read32(st1, notifier)[2] % 256 # \h30
        THEN geforce_dma_write32(
                 geforce_dma_write32(
                     geforce_dma_write64(st1, notifier, U32(16), now),
                     notifier, U32(24), Zero),
                 notifier, U32(28), Zero)
        ELSE st1

\* the classes geforce_execute_command has a case for
HandledClasses ==
    {\h19, \h39, \h43, \h44, \h4a, \h5f, \h9f, \h61, \h65, \h8a, \h62, \h97}

\* the switch on the object class; a class without a case is logged as
\* unimplemented and changes nothing
class_dispatch(st, chid, subc, cls8, method, param, now) ==
    CASE cls8 = \h19 ->
            [st EXCEPT !.channels[chid] =
                geforce_execute_clip(st.channels[chid], method, param)]
      [] cls8 = \h39 ->
            IF method = \h0ca
            THEN m2mf_start(st, chid, subc, param, now)
            ELSE [st EXCEPT !.channels[chid] =
                     geforce_execute_m2mf(st.channels[chid], method, param)]
      [] cls8 = \h43 ->
            [st EXCEPT !.channels[chid] =
                geforce_execute_rop(st.channels[chid], method, param)]
      [] cls8 = \h4a ->
            [st EXCEPT !.channels[chid] =
                geforce_execute_gdi(st.channels[chid], method, param)]
      [] cls8 \in {\h5f, \h9f} ->
            geforce_execute_imageblit(st, chid, method, param)
      [] cls8 \in {\h61, \h65, \h8a} ->
            geforce_execute_ifc(st, chid, method, param)
      [] cls8 = \h62 ->
            [st EXCEPT !.channels[chid] =
                geforce_execute_surf2d(st.channels[chid], method, param)]
      [] cls8 \notin HandledClasses -> st

-----------------------------------------------------------------------------
(* The method dispatcher.                                                  *)

\* the software-method branch at the end of geforce_execute_command
software_push(st, subc, method, param) ==
    LET st1 == geforce_update_irq(
                   [st EXCEPT !.fifo_intr = Or32(st.fifo_intr, U32(1))])
        idx == Val(st.fifo_cache1_put) \div 4
        put4 == Add32(st.fifo_cache1_put, U32(4))
    IN  [st1 EXCEPT
            !.fifo_cache1_pull0 = Or32(st.fifo_cache1_pull0, W(0, \h0100)),
            !.fifo_cache1_method[idx] =
                Or32(Shl32(U32(method), 2), Shl32(U32(subc), 13)),
            !.fifo_cache1_data[idx] = param,
            !.fifo_cache1_put =
                IF put4 = U32(GEFORCE_CACHE1_SIZE * 4) THEN Zero ELSE put4]

\* faulty variant: the previous object's record is not patched with the
\* subchannel's notifier before the bind
execute_bind_nosave(st, chid, subc, param) ==
    LET old == st.channels[chid].schs[subc]
        lt40 == st.card_type < \h40
        oldw1 == geforce_ramin_read32(st, Add32(old.object, U32(4)))
        patched ==
            IF lt40
            THEN Or32(And32(oldw1, W(0, \hFFFF)),
                      Shl32(Shr32(old.notifier, 4), 16))
            ELSE Or32(And32(oldw1, W(\hFFF0, 0)), Shr32(old.notifier, 4))
        rebound(st1, lk, word1) ==
            [st |-> [st1 EXCEPT !.channels[chid].schs[subc] =
                        [object |-> lk.object, engine |-> lk.engine,
                         notifier |->
                            IF lk.engine = 1
                            THEN IF lt40 THEN Shl32(Shr32(word1, 16), 4)
                                 ELSE Shl32(And32(word1, W(\h000F, \hFFFF)), 4)
                            ELSE old.notifier]],
             software_method |-> lk.engine = 0]
        looked(st1, lk) ==
            rebound(st1, lk, geforce_ramin_read32(st1, Add32(lk.object, U32(4))))
        saved(st1) ==
            looked(st1, geforce_ramht_lookup(st1, param, chid,
                                             old.object, old.engine))
    IN  saved(st)

\* method 0: bind the object param names to the subchannel
execute_bind(st, chid, subc, param) ==
    LET old == st.channels[chid].schs[subc]
        lt40 == st.card_type < \h40
        oldw1 == geforce_ramin_read32(st, Add32(old.object, U32(4)))
        patched ==
            IF lt40
            THEN Or32(And32(oldw1, W(0, \hFFFF)),
                      Shl32(Shr32(old.notifier, 4), 16))
            ELSE Or32(And32(oldw1, W(\hFFF0, 0)), Shr32(old.notifier, 4))
        rebound(st1, lk, word1) ==
            [st |-> [st1 EXCEPT !.channels[chid].schs[subc] =
                        [object |-> lk.object, engine |-> lk.engine,
                         notifier |->
                            IF lk.engine = 1
                            THEN IF lt40 THEN Shl32(Shr32(word1, 16), 4)
                                 ELSE Shl32(And32(word1, W(\h000F, \hFFFF)), 4)
                            ELSE old.notifier]],
             software_method |-> lk.engine = 0]
        looked(st1, lk) ==
            rebound(st1, lk, geforce_ramin_read32(st1, Add32(lk.object, U32(4))))
        saved(st1) ==
            looked(st1, geforce_ramht_lookup(st1, param, chid,
                                             old.object, old.engine))
    IN  saved(IF old.engine = 1
              THEN geforce_ramin_write32(st, Add32(old.object, U32(4)), patched)
              ELSE st)

\* faulty variant: the completion is written whatever the notifier's status
execute_notify_always(st, chid, subc, now) ==
    LET ch == st.channels[chid]
        notifier == ch.schs[subc].notifier
        st1 == [st EXCEPT !.channels[chid].notify_pending = FALSE]
        interrupt(st2) ==
            IF ch.notify_type # Zero
            THEN [geforce_update_irq(
                     [st2 EXCEPT !.graph_intr = Or32(st2.graph_intr, U32(1))])
                  EXCEPT !.graph_nsource = Or32(st2.graph_nsource, U32(1)),
                         !.graph_notify = W(\h0011, 0)]
            ELSE st2
    IN  IF ch.notify_pending
        THEN interrupt(geforce_dma_write32(
                           geforce_dma_write32(
                               geforce_dma_write64(st1, notifier, Zero, now),
                               notifier, U32(8), Zero),
                           notifier, U32(12), Zero))
        ELSE st

\* the notification block that follows the class handler
execute_notify(st, chid, subc, now) ==
    LET ch == st.channels[chid]
        notifier == ch.schs[subc].notifier
        st1 == [st EXCEPT !.channels[chid].notify_pending = FALSE]
        interrupt(st2) ==
            IF ch.notify_type # Zero
            THEN [geforce_update_irq(
                     [st2 EXCEPT !.graph_intr = Or32(st2.graph_intr, U32(1))])
                  EXCEPT !.graph_nsource = Or32(st2.graph_nsource, U32(1)),
                         !.graph_notify = W(\h0011, 0)]
            ELSE st2
    IN  IF ch.notify_pending
        THEN interrupt(IF geforce_ramin_read32(st1, notifier)[2] % 256 # \h30
                       THEN geforce_dma_write32(
                                geforce_dma_write32(
                                    geforce_dma_write64(st1, notifier, Zero, now),
                                    notifier, U32(8), Zero),
                                notifier, U32(12), Zero)
                       ELSE st1)
        ELSE st

\* the resolution of the parameter of an indirect method: param is the
\* lookup's object variable, written only on a match
indirect_param(st, chid, method, param0) ==
    IF method >= \h060 /\ method < \h080
    THEN geforce_ramht_lookup(st, param0, chid, param0, 0).object
    ELSE param0

\* faulty variant: method 0x41 arms without recording the type
execute_common_typeless(st2, chid, subc, method, param) ==
    IF method = \h041
    THEN [st2 EXCEPT !.channels[chid].notify_pending = TRUE]
    ELSE IF method = \h060
    THEN [st2 EXCEPT !.channels[chid].schs[subc].notifier = param]
    ELSE st2

\* faulty variant: method 0x60 sets the notifier of every subchannel
execute_common_allsubc(st2, chid, subc, method, param) ==
    IF method = \h041
    THEN [st2 EXCEPT !.channels[chid].notify_pending = TRUE,
                     !.channels[chid].notify_type = param]
    ELSE IF method = \h060
    THEN [st2 EXCEPT !.channels[chid].schs =
             [i \in Subchannels |-> [@[i] EXCEPT !.notifier = param]]]
    ELSE st2

\* the methods the dispatcher itself acts on, after the notification block
execute_common(st2, chid, subc, method, param) ==
    IF method = \h041
    THEN [st2 EXCEPT !.channels[chid].notify_pending = TRUE,
                     !.channels[chid].notify_type = param]
    ELSE IF method = \h060
    THEN [st2 EXCEPT !.channels[chid].schs[subc].notifier = param]
    ELSE st2

\* methods >= 0x40 on a subchannel bound to the graphics engine
execute_graph(st, chid, subc, method, param0, now) ==
    LET sch == st.channels[chid].schs[subc]
        cls == And32(geforce_ramin_read32(st, sch.object),
                     class_mask(st.card_type))
        cls8 == cls[2] % 256
        handle(param) ==
            execute_common(
                execute_notify(
                    class_dispatch(st, chid, subc, cls8, method, param, now),
                    chid, subc, now),
                chid, subc, method, param)
    IN  handle(indirect_param(st, chid, method, param0))

\* geforce_execute_command: the device after the call and the value
\* returned (the function's only return statement is "return true")
geforce_execute_command(st, chid, subc, method, param, now) ==
    LET engine == st.channels[chid].schs[subc].engine
        finish(r) ==
            [st |-> IF r.software_method
                    THEN software_push(r.st, subc, method, param)
                    ELSE r.st,
             ret |-> TRUE]
    IN  finish(IF method = 0 THEN execute_bind(st, chid, subc, param)
               ELSE IF method = \h014
               THEN [st |-> [st EXCEPT !.fifo_cache1_ref_cnt = param],
                     software_method |-> FALSE]
               ELSE IF method >= \h040
               THEN IF engine = 1
                    THEN [st |-> execute_graph(st, chid, subc, method, param, now),
                          software_method |-> FALSE]
                    ELSE [st |-> st, software_method |-> engine = 0]
               ELSE [st |-> st, software_method |-> FALSE])

-----------------------------------------------------------------------------
(* The ring puller, geforce_fifo_process.                                  *)

\* offset of the semaphore word in a RAMFC record
sro(ct) == IF ct < \h40 THEN \h2C ELSE \h30

curchid(st) == st.fifo_cache1_push1[2] % 32

\* faulty variant: the early returns are never taken
fifo_idle_never(st, chid) == FALSE

\* faulty variant: the live registers are compared whatever channel is
\* current
fifo_idle_live(st, chid) == st.fifo_cache1_dma_put = st.fifo_cache1_dma_get

\* the early returns: nothing to do when the channel's get equals its put
fifo_idle(st, chid) ==
    IF curchid(st) = chid
    THEN st.fifo_cache1_dma_put = st.fifo_cache1_dma_get
    ELSE geforce_ramfc_read32(st, chid, 0) = geforce_ramfc_read32(st, chid, 4)

\* faulty variant: the reference count is left out of the saved context
fifo_save_noref(st, oldchid) ==
    LET a == geforce_ramfc_write32(st, oldchid, 0, st.fifo_cache1_dma_put)
        b == geforce_ramfc_write32(a, oldchid, 4, st.fifo_cache1_dma_get)
        d == geforce_ramfc_write32(b, oldchid, 12, st.fifo_cache1_dma_instance)
    IN  geforce_ramfc_write32(d, oldchid, IF st.card_type < \h40 THEN \h2C ELSE \h30,
                              st.fifo_cache1_semaphore)

\* save the live registers to the outgoing channel's record
fifo_save(st, oldchid) ==
    LET a == geforce_ramfc_write32(st, oldchid, 0, st.fifo_cache1_dma_put)
        b == geforce_ramfc_write32(a, oldchid, 4, st.fifo_cache1_dma_get)
        c == geforce_ramfc_write32(b, oldchid, 8, st.fifo_cache1_ref_cnt)
        d == geforce_ramfc_write32(c, oldchid, 12, st.fifo_cache1_dma_instance)
    IN  geforce_ramfc_write32(d, oldchid, sro(st.card_type),
                              st.fifo_cache1_semaphore)

\* faulty variant: the load drops the incoming channel's pending run
fifo_load_drops_run(st, chid) ==
    [st EXCEPT
        !.channels[chid].dma_state.mcnt = 0,
        !.fifo_cache1_dma_put = geforce_ramfc_read32(st, chid, 0),
        !.fifo_cache1_dma_get = geforce_ramfc_read32(st, chid, 4),
        !.fifo_cache1_ref_cnt = geforce_ramfc_read32(st, chid, 8),
        !.fifo_cache1_dma_instance = geforce_ramfc_read32(st, chid, 12),
        !.fifo_cache1_semaphore =
            geforce_ramfc_read32(st, chid, sro(st.card_type)),
        !.fifo_cache1_push1 =
            Or32(And32(st.fifo_cache1_push1, W(\hFFFF, \hFFE0)), U32(chid))]

\* load the live registers from the incoming channel's record
fifo_load(st, chid) ==
    [st EXCEPT
        !.fifo_cache1_dma_put = geforce_ramfc_read32(st, chid, 0),
        !.fifo_cache1_dma_get = geforce_ramfc_read32(st, chid, 4),
        !.fifo_cache1_ref_cnt = geforce_ramfc_read32(st, chid, 8),
        !.fifo_cache1_dma_instance = geforce_ramfc_read32(st, chid, 12),
        !.fifo_cache1_semaphore =
            geforce_ramfc_read32(st, chid, sro(st.card_type)),
        !.fifo_cache1_push1 =
            Or32(And32(st.fifo_cache1_push1, W(\hFFFF, \hFFE0)), U32(chid))]

\* the context switch at the head of geforce_fifo_process
fifo_switch(st, chid) ==
    IF curchid(st) # chid THEN fifo_load(fifo_save(st, curchid(st)), chid)
    ELSE st

\* the word the loop fetches
fifo_fetch(st, phys) ==
    geforce_dma_read32(st, Shl32(st.fifo_cache1_dma_instance, 4),
                       st.fifo_cache1_dma_get, phys)

\* faulty variant: no word is taken for an old-style jump
IsOldJump_never(word) == FALSE

IsOldJump(word) == And32(word, W(\hE000, \h0003)) = W(\h2000, 0)
IsJump(word) == word[2] % 4 = 1
IsCall(word) == word[2] % 4 = 2

\* faulty variant: only the upper half of the word is compared
IsReturn_upper(word) == word[1] = \h0002

IsReturn(word) == word = W(\h0002, 0)
\* faulty variant: bits 16 and 17 are left out of the header test
IsHeader_loose(word) == And32(word, W(\hA000, \h0003)) = Zero

IsHeader(word) == And32(word, W(\hA003, \h0003)) = Zero

\* faulty variant: a call is taken even when a subroutine is active
call_always(ch) == TRUE

\* the guard of the call branch: no subroutine is active
call_allowed(ch) == ~ch.subr_active

\* faulty variant: the method advances even in a non-increment run
next_mthd_always_inc(ds) == ds.mthd + 1

\* if (!ch->dma_state.ni) ch->dma_state.mthd++
next_mthd(ds) == IF ds.ni THEN ds.mthd ELSE ds.mthd + 1

\* which branch of the decode chain a word takes
word_kind(word) ==
    IF IsOldJump(word) THEN "oldjump"
    ELSE IF IsJump(word) THEN "jump"
    ELSE IF IsCall(word) THEN "call"
    ELSE IF IsReturn(word) THEN "return"
    ELSE IF IsHeader(word) THEN "header"
    ELSE "unexpected"

\* faulty variant: a call saves the offset of the call word itself as the
\* return address
fifo_decode_callsite(st, chid, word) ==
    LET ch == st.channels[chid]
    IN  IF IsOldJump(word)
        THEN [st EXCEPT !.fifo_cache1_dma_get = And32(word, W(\h1FFF, \hFFFF))]
        ELSE IF IsJump(word)
        THEN [st EXCEPT !.fifo_cache1_dma_get = And32(word, W(\hFFFF, \hFFFC))]
        ELSE IF IsCall(word)
        THEN IF ~call_allowed(ch) THEN st
             ELSE [st EXCEPT
                     !.channels[chid].subr_return =
                         Sub32(st.fifo_cache1_dma_get, U32(4)),
                     !.channels[chid].subr_active = TRUE,
                     !.fifo_cache1_dma_get = And32(word, W(\hFFFF, \hFFFC))]
        ELSE IF IsReturn(word)
        THEN IF ~ch.subr_active THEN st
             ELSE [st EXCEPT
                     !.fifo_cache1_dma_get = ch.subr_return,
                     !.channels[chid].subr_active = FALSE]
        ELSE IF IsHeader(word)
        THEN [st EXCEPT !.channels[chid].dma_state =
                 [mthd |-> Shr32(word, 2)[2] % 2048,
                  subc |-> Shr32(word, 13)[2] % 8,
                  mcnt |-> Shr32(word, 18)[2] % 2048,
                  ni |-> And32(word, W(\h4000, 0)) # Zero]]
        ELSE st

\* the else branch: decode a control word or a method header; get has
\* already been advanced past the word
fifo_decode(st, chid, word) ==
    LET ch == st.channels[chid]
    IN  IF IsOldJump(word)
        THEN [st EXCEPT !.fifo_cache1_dma_get = And32(word, W(\h1FFF, \hFFFF))]
        ELSE IF IsJump(word)
        THEN [st EXCEPT !.fifo_cache1_dma_get = And32(word, W(\hFFFF, \hFFFC))]
        ELSE IF IsCall(word)
        THEN IF ~call_allowed(ch) THEN st
             ELSE [st EXCEPT
                     !.channels[chid].subr_return = st.fifo_cache1_dma_get,
                     !.channels[chid].subr_active = TRUE,
                     !.fifo_cache1_dma_get = And32(word, W(\hFFFF, \hFFFC))]
        ELSE IF IsReturn(word)
        THEN IF ~ch.subr_active THEN st
             ELSE [st EXCEPT
                     !.fifo_cache1_dma_get = ch.subr_return,
                     !.channels[chid].subr_active = FALSE]
        ELSE IF IsHeader(word)
        THEN [st EXCEPT !.channels[chid].dma_state =
                 [mthd |-> Shr32(word, 2)[2] % 2048,
                  subc |-> Shr32(word, 13)[2] % 8,
                  mcnt |-> Shr32(word, 18)[2] % 2048,
                  ni |-> And32(word, W(\h4000, 0)) # Zero]]
        ELSE st

\* One iteration of the while loop.  brk: the loop was left by its break.
fifo_iter(st, chid, phys, now) ==
    LET st1 == [st EXCEPT !.fifo_cache1_dma_get =
                   Add32(st.fifo_cache1_dma_get, U32(4))]
        ds == st.channels[chid].dma_state
        executed(r, word) ==
            IF ~r.ret
            THEN [st |-> [r.st EXCEPT !.fifo_cache1_dma_get =
                             Sub32(r.st.fifo_cache1_dma_get, U32(4))],
                  brk |-> TRUE, word |-> word, exec |-> TRUE]
            ELSE [st |-> [r.st EXCEPT
                             !.channels[chid].dma_state.mthd = next_mthd(ds),
                             !.channels[chid].dma_state.mcnt = ds.mcnt - 1],
                  brk |-> FALSE, word |-> word, exec |-> TRUE]
        fetched(word) ==
            IF ds.mcnt # 0
            THEN executed(geforce_execute_command(st1, chid, ds.subc, ds.mthd,
                                                  word, now),
                          word)
            ELSE [st |-> fifo_decode(st1, chid, word), brk |-> FALSE,
                  word |-> word, exec |-> FALSE]
    IN  fetched(fifo_fetch(st, phys))

-----------------------------------------------------------------------------
(* MMIO writes (geforce_mmio_write).                                       *)

\* 0x700000 <= addr < 0x800000: the RAMIN window
InRaminWindow(addr) == addr[1] >= \h70 /\ addr[1] < \h80

mmio_write_ramin(st, addr, val) ==
    geforce_ramin_write32(st, Sub32(addr, W(\h70, 0)), val)

\* case 0x002210: s->fifo_ramht = val
mmio_write_fifo_ramht(st, val) == [st EXCEPT !.fifo_ramht = val]

\* case 0x002214: s->fifo_ramfc = val, on models with card_type < 0x40
mmio_write_fifo_ramfc(st, val) ==
    IF st.card_type < \h40 THEN [st EXCEPT !.fifo_ramfc = val] ELSE st

\* case 0x00322c: s->fifo_cache1_dma_instance = val
mmio_write_dma_instance(st, val) == [st EXCEPT !.fifo_cache1_dma_instance = val]

\* the two FIFO channel windows
InChannelWindow(addr) ==
    \/ addr[1] >= \h80 /\ addr[1] < \hA0
    \/ addr[1] >= \hC0 /\ addr[1] < \hE0

\* the channel and register offset a channel-window address selects
channel_of(addr) ==
    LET raw == IF addr[1] >= \h80 /\ addr[1] < \hA0
               THEN addr[1] % 32
               ELSE Shr32(addr, 12)[2] % 512
    IN  IF raw >= GEFORCE_CHANNEL_COUNT THEN 0 ELSE raw

channel_offset(addr) ==
    IF addr[1] >= \h80 /\ addr[1] < \hA0 THEN addr[2] % 8192 ELSE addr[2] % 512

\* offset 0x40: the put register.  The value goes to the live register of
\* the current channel or to the RAMFC record of another one.
mmio_write_channel_put(st, chid, val) ==
    IF curchid(st) = chid THEN [st EXCEPT !.fifo_cache1_dma_put = val]
    ELSE geforce_ramfc_write32(st, chid, 0, val)

-----------------------------------------------------------------------------
(* Values shared by the specifications.                                    *)

Models == {GEFORCE_3, GEFORCE_FX_5900, GEFORCE_6800}

NoObs == [op |-> "none"]

\* the caller's object and engine variables before a lookup
CallerObject == W(\hDEAD, \hBEE0)
CallerEngine == \hFF

GhostInit ==
    /\ pc = "idle"
    /\ cur = 0
    /\ log = << >>
    /\ swout = [c \in Channels |-> << >>]
    /\ obs = NoObs
    /\ tick = 0

-----------------------------------------------------------------------------
(* SpecRamht: the handle resolver over tables the guest builds by RAMIN    *)
(* writes.  After reset fifo_ramht is 0: the table is at RAMIN offset 0    *)
(* and has 2^9 slots.                                                      *)

HA == W(\h8000, \h014F)
HB == W(0, \h015F)

\* Entries the guest may store: the handle, the channel and (object,
\* engine) its context word names, the slot the entry is stored in and its
\* natural slot.  (HA, 5), (HB, 5) and (HA, 21) all hash to slot 511,
\* (HA, 1) and (HB, 1) to slot 383.
TableEntries ==
    { [handle |-> HA, chid |-> 5, object |-> W(0, \h1000), engine |-> 1,
       nat |-> 511, slot |-> 511],
      [handle |-> HB, chid |-> 5, object |-> W(\h000F, \hFFF0), engine |-> 255,
       nat |-> 511, slot |-> 0],
      [handle |-> HA, chid |-> 21, object |-> W(0, \h2340), engine |-> 0,
       nat |-> 511, slot |-> 1],
      [handle |-> HB, chid |-> 1, object |-> W(0, \h0770), engine |-> 1,
       nat |-> 383, slot |-> 383],
      [handle |-> HB, chid |-> 21, object |-> W(0, \h0880), engine |-> 1,
       nat |-> 511, slot |-> 511] }

\* the context word a guest driver stores for an entry (pre-NV40 layout)
EncodeContext(e) ==
    Or32(Or32(Shl32(U32(e.chid), 24), Shl32(U32(e.engine), 16)),
         Shr32(e.object, 4))

\* MMIO address of a slot's handle word
SlotMmio(slot) == Add32(W(\h70, 0), U32(slot * 8))

\* what the guest stored, read back the way it wrote it
SlotHandle(k) == geforce_ramin_read32(s, U32(8 * k))

SlotContext(k) == geforce_ramin_read32(s, U32(8 * k + 4))

LookupHandles == {HA, HB}
LookupChids == {1, 5, 21}

InitRamht ==
    /\ \E ct \in Models : s = geforce_reset(ct)
    /\ GhostInit

\* A guest write of one table word through the RAMIN window.  The driver
\* fills a slot context word first and empties it handle word first, so a
\* slot with a handle always carries that entry's context.
RamhtGuestWrite ==
    \E e \in TableEntries, handle_word \in BOOLEAN, clear \in BOOLEAN :
        LET addr == IF handle_word THEN SlotMmio(e.slot)
                    ELSE Add32(SlotMmio(e.slot), U32(4))
            val == IF clear THEN Zero
                   ELSE IF handle_word THEN e.handle ELSE EncodeContext(e)
        IN  /\ InRaminWindow(addr)
            /\ ~handle_word => SlotHandle(e.slot) = Zero
            /\ (handle_word /\ ~clear) => SlotContext(e.slot) = EncodeContext(e)
            /\ s' = mmio_write_ramin(s, addr, val)
            /\ obs' = NoObs
            /\ UNCHANGED <<pc, cur, log, swout, tick>>

\* a call of geforce_ramht_lookup
RamhtLookup ==
    \E h \in LookupHandles, c \in LookupChids :
        /\ obs.op = "none"
        /\ obs' = [op |-> "lookup", handle |-> h, chid |-> c,
                   res |-> geforce_ramht_lookup(s, h, c, CallerObject,
                                                CallerEngine)]
        /\ UNCHANGED <<s, pc, cur, log, swout, tick>>

NextRamht == RamhtGuestWrite \/ RamhtLookup

SpecRamht == InitRamht /\ [][NextRamht]_vars

SlotCount == 2 ^ 9

UsedSlots == {e.slot : e \in TableEntries}

\* slot k holds handle h for channel c
Holds(k, h, c) ==
    /\ SlotHandle(k) = h
    /\ \E e \in TableEntries : e.chid = c /\ SlotContext(k) = EncodeContext(e)

\* the entry whose context word slot k holds
Meaning(k) == CHOOSE e \in TableEntries : SlotContext(k) = EncodeContext(e)

\* the slot a lookup for channel c starts at (both handles fold to 0x15F)
NaturalSlot(c) == IF c = 1 THEN 383 ELSE 511

\* the number of slots from n forward to k, wrapping at the table's end
Dist(k, n) == (k - n + SlotCount) % SlotCount

\* C1: when handle H is stored for channel c at its natural slot, resolving
\* H for c yields exactly the stored (object, engine), in one probe, and
\* resolving H for a channel for which no slot holds H reports failure and
\* leaves the caller's object and engine as they were.
C1_NaturalSlotResolves ==
    obs.op = "lookup" =>
        \A e \in TableEntries :
            ( /\ e.slot = e.nat
              /\ e.handle = obs.handle
              /\ SlotHandle(e.slot) = e.handle
              /\ SlotContext(e.slot) = EncodeContext(e) ) =>
            /\ obs.chid = e.chid =>
                   /\ obs.res.found
                   /\ obs.res.object = e.object
                   /\ obs.res.engine = e.engine
                   /\ obs.res.probes = 1
            /\ ( /\ obs.chid # e.chid
                 /\ \A k \in UsedSlots : ~Holds(k, obs.handle, obs.chid) ) =>
                   /\ ~obs.res.found
                   /\ obs.res.object = CallerObject
                   /\ obs.res.engine = CallerEngine

C1_Witness ==
    /\ obs.op = "lookup"
    /\ obs.handle = HA
    /\ obs.chid = 5
    /\ SlotHandle(511) = HA
    /\ obs.res.found
    /\ obs.res.object = W(0, \h1000)
    /\ obs.res.engine = 1

\* C2: an entry displaced from its natural slot is found at the first slot,
\* in probe order with wraparound, that holds its handle for its channel;
\* no lookup makes more passes than the table has slots; and when no slot
\* holds the handle for the channel the lookup fails after one full
\* traversal without producing an object or engine.
C2_ProbingFindsOrFails ==
    obs.op = "lookup" =>
        LET holders == {k \in UsedSlots : Holds(k, obs.handle, obs.chid)}
            n == NaturalSlot(obs.chid)
        IN  /\ obs.res.probes <= SlotCount
            /\ holders = {} =>
                   /\ ~obs.res.found
                   /\ obs.res.probes = SlotCount
                   /\ obs.res.object = CallerObject
                   /\ obs.res.engine = CallerEngine
            /\ \A k \in holders :
                   ( /\ Dist(k, n) > 0
                     /\ \A j \in holders : Dist(k, n) <= Dist(j, n) ) =>
                   /\ obs.res.found
                   /\ obs.res.probes = Dist(k, n) + 1
                   /\ obs.res.at = U32(8 * k)
                   /\ obs.res.object = Meaning(k).object
                   /\ obs.res.engine = Meaning(k).engine

\* (HB, 5) found in slot 0, after the probe wrapped past slot 511, which
\* holds the other handle
C2_Witness ==
    /\ obs.op = "lookup"
    /\ obs.handle = HB
    /\ obs.chid = 5
    /\ SlotHandle(511) = HA
    /\ obs.res.found
    /\ obs.res.probes = 2
    /\ obs.res.at = Zero

\* a lookup that fails after probing every slot of a table that holds
\* other entries
C2_WitnessAbsent ==
    /\ obs.op = "lookup"
    /\ ~obs.res.found
    /\ obs.res.probes = SlotCount
    /\ SlotHandle(511) = HA


-----------------------------------------------------------------------------
(* SpecDma: address translation through one DMA descriptor the guest       *)
(* builds at RAMIN offset 0x100, and 32-bit reads through it.              *)

DmaObject == W(0, \h0100)

\* first words: flags (0x2000: linear) and the adjust field in bits 20..31
DescWord0 ==
    { W(\h0100, \h2000), W(\hFFF0, \h2000), W(0, \h2000),
      W(\h0100, 0), W(\h0600, 0), W(\hFFF0, 0), Zero }

\* second word: the limit
DescWord1 == { W(\h00FF, \hFFFF), Zero }

\* third word: the base of a linear descriptor, entry 0 of a page table
DescWord2 == { W(0, \h2003), W(0, \h5000), W(\hFFFF, \hE000), Zero }

\* fourth word: entry 1 of a page table
DescWord3 == { W(0, \h7FFF), Zero }

DescWrites ==
    {[off |-> 0, val |-> v] : v \in DescWord0}
    \cup {[off |-> 4, val |-> v] : v \in DescWord1}
    \cup {[off |-> 8, val |-> v] : v \in DescWord2}
    \cup {[off |-> 12, val |-> v] : v \in DescWord3}

DmaOffsets ==
    { Zero, W(0, \h0034), W(0, \h0FA0), W(0, \h1FA0), W(0, \h2000),
      W(\hFFFF, \hFFF0) }

\* words the guest places in video memory through the framebuffer aperture
Marker == W(\hCAFE, \hF00D)

MarkedAddrs == { \h2044, \h5FA0 }

InitDma ==
    /\ \E ct \in Models : s = geforce_reset(ct)
    /\ GhostInit

\* a guest write of one descriptor word through the RAMIN window
DmaGuestWrite ==
    \E w \in DescWrites :
        LET addr == Add32(W(\h70, 0), Add32(DmaObject, U32(w.off)))
        IN  /\ InRaminWindow(addr)
            /\ s' = mmio_write_ramin(s, addr, w.val)
            /\ obs' = NoObs
            /\ UNCHANGED <<pc, cur, log, swout, tick>>

\* a guest store to video memory (the aperture is plain RAM)
DmaGuestFill ==
    \E a \in MarkedAddrs :
        /\ ldl_le_p(s.vram, a) = Zero
        /\ s' = [s EXCEPT !.vram = stl_le_p(s.vram, a, Marker)]
        /\ obs' = NoObs
        /\ UNCHANGED <<pc, cur, log, swout, tick>>

\* geforce_dma_read32 through the descriptor at byte offset o
DmaRead32 ==
    \E o \in DmaOffsets :
        /\ obs.op = "none"
        /\ obs' = [op |-> "dma", o |-> o,
                   abs |-> dma_addr_abs(s, DmaObject, o),
                   val |-> geforce_dma_read32(s, DmaObject, o, Zero)]
        /\ UNCHANGED <<s, pc, cur, log, swout, tick>>

NextDma == DmaGuestWrite \/ DmaGuestFill \/ DmaRead32

SpecDma == InitDma /\ [][NextDma]_vars

\* the descriptor as the guest wrote it
DescWord(off) == geforce_ramin_read32(s, Add32(DmaObject, U32(off)))

DescLinear == (DescWord(0)[2] \div 8192) % 2 = 1

\* the adjust field: bits 20..31 of the first word
DescAdjust == W(0, DescWord(0)[1] \div 16)

\* a word with its low 12 bits cleared
Frame(w) == W(w[1], w[2] - (w[2] % 4096))

\* the word video memory holds at a, when a .. a+3 is inside it
VramWord(a) ==
    IF a[1] < memsize(s.card_type)[1] THEN ldl_le_p(s.vram, Val(a)) ELSE Zero

\* C7: through a descriptor with the linear flag set, an access at byte
\* offset o resolves to base + adjust + o in 32-bit arithmetic, base being
\* the descriptor's base field with its low 12 bits masked and adjust bits
\* 20..31 of its first word; a 32-bit read returns the word at that address.
C7_LinearTranslation ==
    (obs.op = "dma" /\ DescLinear) =>
        LET expected == Add32(Add32(Frame(DescWord(8)), DescAdjust), obs.o)
        IN  /\ obs.abs = expected
            /\ obs.val = VramWord(expected)

\* base 0x2000, adjust 0x10, offset 0x34: address 0x2044
C7_Witness ==
    /\ obs.op = "dma"
    /\ DescWord(0) = W(\h0100, \h2000)
    /\ DescWord(8) = W(0, \h2003)
    /\ DescWord(4) = W(\h00FF, \hFFFF)
    /\ obs.o = W(0, \h0034)
    /\ obs.abs = W(0, \h2044)
    /\ obs.val = Marker

\* entry i of the page table stored inline after the descriptor header
PageTable(i) == DescWord(8 + 4 * i)

\* o >> 12 and o & 0xFFF
PageIndex(o) == o[1] * 16 + (o[2] \div 4096)

PageOffset(o) == W(0, o[2] % 4096)

\* C8 as stated: through a descriptor with the linear flag clear, offset o
\* resolves to page_table[o >> 12] masked to its frame bits, or-ed with
\* o & 0xFFF, whatever the descriptor's first word holds.
C8_PagedIgnoresFirstWord ==
    (obs.op = "dma" /\ ~DescLinear) =>
        obs.abs = Or32(Frame(PageTable(PageIndex(obs.o))), PageOffset(obs.o))

\* C8 amended: the adjust field (bits 20..31 of the first word) is added
\* to the offset first; with a = o + adjust in 32-bit arithmetic the
\* access resolves to page_table[a >> 12] masked to its frame bits, or-ed
\* with a & 0xFFF, and a 32-bit read returns the word at that address.
C8_PagedTranslation ==
    (obs.op = "dma" /\ ~DescLinear) =>
        LET a == Add32(obs.o, DescAdjust)
            expected == Or32(Frame(PageTable(PageIndex(a))), PageOffset(a))
        IN  /\ obs.abs = expected
            /\ obs.val = VramWord(expected)

\* entry 0 = 0x5000, entry 1 = 0x7FFF, adjust 0x60, offset 0xFA0: the
\* adjusted offset 0x1000 selects entry 1 and the address is 0x7000
C8_Witness ==
    /\ obs.op = "dma"
    /\ DescWord(0) = W(\h0600, 0)
    /\ DescWord(8) = W(0, \h5000)
    /\ DescWord(12) = W(0, \h7FFF)
    /\ obs.o = W(0, \h0FA0)
    /\ obs.abs = W(0, \h7000)

-----------------------------------------------------------------------------
(* SpecVram: the device-memory accessors called with arbitrary addresses.  *)
(* An accessor whose bounds test passes for bytes outside the allocation   *)
(* performs an out-of-bounds host access: undefined behaviour, modelled as *)
(* any value read, a stray write outside device memory, or a crash.        *)

MaxVramWrites == 2

VramAddrs(ct) ==
    { W(0, \h1000),
      Sub32(memsize(ct), U32(8)), Sub32(memsize(ct), U32(4)),
      Sub32(memsize(ct), U32(1)), memsize(ct), W(\h8000, 0),
      W(\hFFFF, \hFFF8), W(\hFFFF, \hFFF9), W(\hFFFF, \hFFFD),
      W(\hFFFF, \hFFFF) }

VramValue == W(\hA1B2, \hC3D4)

\* what an out-of-bounds host access can do
UbOutcomes == {"garbage", "zero", "crash"}

vram_read(st, addr, w) ==
    IF w = 1 THEN geforce_vram_read8(st, addr)
    ELSE IF w = 2 THEN geforce_vram_read16(st, addr)
    ELSE geforce_vram_read32(st, addr)

vram_write(st, addr, w, val) ==
    IF w = 1 THEN geforce_vram_write8(st, addr, val)
    ELSE IF w = 2 THEN geforce_vram_write16(st, addr, val)
    ELSE IF w = 4 THEN geforce_vram_write32(st, addr, val)
    ELSE geforce_vram_write64(st, addr, <<val, val>>)

InitVram ==
    /\ \E ct \in Models : s = geforce_reset(ct)
    /\ GhostInit

\* geforce_vram_read8/16/32
VramRead ==
    \E a \in VramAddrs(s.card_type), w \in {1, 2, 4} :
        /\ obs.op # "crash"
        /\ IF vram_check(s.card_type, a, w) /\ ~in_allocation(s.card_type, a, w)
           THEN \E u \in UbOutcomes :
                   obs' = [op |-> IF u = "crash" THEN "crash" ELSE "vread",
                           a |-> a, w |-> w, outside |-> TRUE,
                           val |-> IF u = "garbage" THEN VramValue ELSE Zero]
           ELSE obs' = [op |-> "vread", a |-> a, w |-> w, outside |-> FALSE,
                        val |-> vram_read(s, a, w)]
        /\ UNCHANGED <<s, pc, cur, log, swout, tick>>

\* geforce_vram_write8/16/32/64
VramWrite ==
    \E a \in VramAddrs(s.card_type), w \in {1, 2, 4, 8} :
        /\ obs.op # "crash"
        /\ Len(log) < MaxVramWrites
        /\ log' = Append(log, "write")
        /\ IF vram_check(s.card_type, a, w) /\ ~in_allocation(s.card_type, a, w)
           THEN /\ \E u \in UbOutcomes \ {"zero"} :
                       obs' = [op |-> IF u = "crash" THEN "crash" ELSE "vwrite",
                               a |-> a, w |-> w, outside |-> TRUE,
                               val |-> VramValue, before |-> s.vram]
                /\ s' = s
           ELSE /\ obs' = [op |-> "vwrite", a |-> a, w |-> w,
                           outside |-> FALSE, val |-> VramValue,
                           before |-> s.vram]
                /\ s' = vram_write(s, a, w, VramValue)
        /\ UNCHANGED <<pc, cur, swout, tick>>

NextVram == VramRead \/ VramWrite

SpecVram == InitVram /\ [][NextVram]_vars

\* the byte range [a, a + w) is entirely inside [0, memsize)
RangeInside(a, w) ==
    /\ Lt32(a, memsize(s.card_type))
    /\ LET room == Sub32(memsize(s.card_type), a)
       IN  room[1] > 0 \/ room[2] >= w

\* C9 as stated: an access whose byte range is not entirely inside device
\* memory touches no memory; a read returns 0 and a write leaves device
\* memory unchanged.  This holds when the range starts at or crosses the
\* end of memory, and fails where a + w - 1 wraps in 32-bit arithmetic.
C9_BoundsViolationsHarmless ==
    (obs.op \in {"vread", "vwrite", "crash"} /\ ~RangeInside(obs.a, obs.w)) =>
        /\ obs.op # "crash"
        /\ ~obs.outside
        /\ obs.op = "vread" => obs.val = Zero
        /\ obs.op = "vwrite" => s.vram = obs.before

-----------------------------------------------------------------------------
(* Spec: the ring puller driven by guest writes to the channel put         *)
(* registers.  The guest has set up, through MMIO and the memory           *)
(* apertures: RAMHT at RAMIN 0x4000, RAMFC at RAMIN 0x2000, one linear     *)
(* ring descriptor per channel, a raster-op object at RAMIN 0x1000 named   *)
(* by handle HA for channel 5, and a ring program for channels 0 and 5.    *)
(* geforce_fifo_process runs inside the MMIO handler; its loop is          *)
(* modelled one iteration per step, and no other action is enabled until   *)
(* the loop is left (pc = "idle").                                         *)

GuestChannels == {0, 5}

\* RAMIN offsets and words of the set-up image
RaminImage ==
    << <<W(0, \h0100), W(0, \h2000)>>,      \* channel 0 ring: linear, vram
       <<W(0, \h0104), W(0, \h0FFF)>>,      \*   limit
       <<W(0, \h0108), W(\h0001, 0)>>,      \*   base 0x10000
       <<W(0, \h0110), W(0, \h2000)>>,      \* channel 5 ring: linear, vram
       <<W(0, \h0114), W(0, \h0FFF)>>,      \*   limit
       <<W(0, \h0118), W(\h0001, \h1000)>>, \*   base 0x11000
       <<W(0, \h2148), W(0, \h0005)>>,      \* RAMFC[5]: reference count
       <<W(0, \h214C), W(0, \h0011)>>,      \* RAMFC[5]: descriptor instance
       <<W(0, \h4FF8), HA>>,                \* RAMHT slot 511: handle
       <<W(0, \h4FFC), W(\h0501, \h0100)>>, \*   channel 5, engine 1, 0x1000
       <<W(0, \h1000), W(0, \h0043)>> >>    \* object 0x1000: class 0x43

\* where each channel's ring lies in video memory
RingBase(c) == IF c = 0 THEN \h10000 ELSE \h11000

\* ring programs: <<byte offset, word>>
RingProgram(c) ==
    IF c = 0
    THEN << <<\h00, W(\h0004, \h0050)>>,   \* header: 1 x method 0x14, subc 0
            <<\h04, W(0, \h0077)>>,
            <<\h08, W(\h0004, \h0050)>>,   \* header: 1 x method 0x14, subc 0
            <<\h0C, W(0, \h0088)>> >>
    ELSE << <<\h00, W(\h0004, \h6000)>>,   \* header: 1 x method 0, subc 3
            <<\h04, HA>>,
            <<\h08, W(\h0004, \h6300)>>,   \* header: 1 x method 0xc0, subc 3
            <<\h0C, W(0, \h000C)>>,
            <<\h10, W(\h000C, \h4400)>>,   \* header: 3 x method 0x100, subc 2
            <<\h14, W(0, \h0081)>>,        \*   parameter shaped like a jump
            <<\h18, W(\h0002, 0)>>,        \*   parameter shaped like a return
            <<\h1C, W(0, \h0082)>>,        \*   parameter shaped like a call
            <<\h20, W(\h4008, \h4400)>>,   \* header: 2 x 0x100, non-increment
            <<\h24, W(\h0004, \h6000)>>,   \*   parameter shaped like a header
            <<\h28, W(\h2000, 0)>>,        \*   parameter shaped like an old jump
            <<\h2C, W(0, \h4400)>>,        \* header: 0 x method 0x100, subc 2
            <<\h30, W(\h0002, 0)>>,        \* return, no subroutine active
            <<\h34, W(0, \h0082)>>,        \* call 0x80
            <<\h38, W(0, \h0041)>>,        \* jump 0x40
            <<\h40, W(\h2000, \h0048)>>,   \* old jump 0x48
            <<\h48, W(0, \h0003)>>,        \* no valid encoding
            <<\h4C, W(0, \h0051)>>,        \* jump 0x50
            <<\h50, W(0, \h004D)>>,        \* jump 0x4C
            <<\h80, W(0, \h0092)>>,        \* call 0x90, subroutine active
            <<\h84, W(\h0002, 0)>> >>      \* return

\* byte i of a word, little-endian
ByteOf(w, i) ==
    IF i = 0 THEN w[2] % 256
    ELSE IF i = 1 THEN w[2] \div 256
    ELSE IF i = 2 THEN w[1] % 256
    ELSE w[1] \div 256

\* The words of the image with the video-memory address each one lands at:
\* a word written through the RAMIN window at offset o is stored at
\* o ^ ramin_flip, a ring word at the ring's base plus its offset.
ImageWords(ct) ==
    {<<Val(Xor32(RaminImage[i][1], ramin_flip(ct))), RaminImage[i][2]>> :
        i \in DOMAIN RaminImage}
    \cup UNION {{<<RingBase(c) + RingProgram(c)[i][1], RingProgram(c)[i][2]>> :
                    i \in DOMAIN RingProgram(c)} : c \in GuestChannels}

\* video memory after the guest stored the image (non-zero bytes)
ImageMemory(ct) ==
    LET cells == {<<w[1] + i, ByteOf(w[2], i)>> : w \in ImageWords(ct), i \in 0 .. 3}
        nz == {c \in cells : c[2] # 0}
    IN  [a \in {c[1] : c \in nz} |-> (CHOOSE c \in nz : c[1] = a)[2]]

\* the device after the guest's set-up
FifoImage(ct) ==
    LET st1 == mmio_write_fifo_ramht(geforce_reset(ct), W(0, \h0040))
        st2 == mmio_write_fifo_ramfc(st1, W(0, \h0020))
        st3 == mmio_write_dma_instance(st2, W(0, \h0010))
    IN  [st3 EXCEPT !.vram = ImageMemory(ct)]

\* put register addresses the guest writes: channel 0 and channel 5 in the
\* first window, channel 5 in the second
PutAddrs == { W(\h0080, \h0040), W(\h0085, \h0040), W(\h00C0, \h5040) }

\* put values the guest writes
PutValues(c) ==
    IF c = 0 THEN { W(0, \h08), W(0, \h10) }
    ELSE { W(0, \h10), W(0, \h20), W(0, \h30), W(0, \h4C), W(0, \h54) }

\* the put cursor of channel c, live or in its RAMFC record
channel_put(st, c) ==
    IF curchid(st) = c THEN st.fifo_cache1_dma_put
    ELSE geforce_ramfc_read32(st, c, 0)

\* the live context registers
LiveContext(st) ==
    [get |-> st.fifo_cache1_dma_get, put |-> st.fifo_cache1_dma_put,
     ref_cnt |-> st.fifo_cache1_ref_cnt,
     instance |-> st.fifo_cache1_dma_instance,
     semaphore |-> st.fifo_cache1_semaphore, touched |-> FALSE]

\* the semaphore word the guest stores in a channel's RAMFC record
SemValue == W(\h5E5E, \h0001)

\* the time stamp a notification carries: geforce_get_current_time clears
\* its low five bits
NowStamp == <<W(0, \h0002), W(\h5A5A, \h1240)>>

Init ==
    /\ \E ct \in Models : s = FifoImage(ct)
    /\ pc = "idle"
    /\ cur = 0
    /\ log = [c \in GuestChannels |-> << >>]
    /\ swout = [c \in Channels |-> << >>]
    /\ obs = NoObs
    /\ tick = 0

\* A guest write to a channel's put register: geforce_mmio_write stores the
\* value and calls geforce_fifo_process, which returns at once when the
\* channel has nothing to fetch and otherwise switches to the channel and
\* enters its loop.  The guest only moves a put cursor forward.
MmioWriteChannelPut ==
    /\ pc = "idle"
    /\ \E addr \in PutAddrs :
         \E val \in PutValues(channel_of(addr)) :
         \E st1 \in {mmio_write_channel_put(s, channel_of(addr), val)} :
           LET chid == channel_of(addr)
               old == curchid(s)
           IN  /\ InChannelWindow(addr)
               /\ channel_offset(addr) = \h40
               /\ Val(val) >= Val(channel_put(s, chid))
               /\ IF fifo_idle(st1, chid)
                  THEN /\ s' = st1
                       /\ pc' = "idle"
                       /\ cur' = cur
                       /\ swout' = swout
                       /\ obs' = [op |-> "put", chid |-> chid, val |-> val]
                  ELSE /\ s' = fifo_switch(st1, chid)
                       /\ pc' = "pull"
                       /\ cur' = chid
                       /\ swout' = IF old # chid
                                   THEN [swout EXCEPT ![old] = LiveContext(st1)]
                                   ELSE swout
                       /\ obs' = [op |-> IF old # chid THEN "switch" ELSE "put",
                                  chid |-> chid, val |-> val]
    /\ UNCHANGED <<log, tick>>

\* One pass of the while loop of geforce_fifo_process for channel cur:
\* the loop is left when get equals put, otherwise one word is fetched and
\* dispatched or decoded.
FifoStep ==
    /\ pc = "pull"
    /\ tick' = 1 - tick
    /\ IF s.fifo_cache1_dma_get = s.fifo_cache1_dma_put
       THEN /\ pc' = "idle"
            /\ obs' = NoObs
            /\ UNCHANGED <<s, cur, log, swout>>
       ELSE \E r \in {fifo_iter(s, cur, Zero, NowStamp)} :
            LET ds == s.channels[cur].dma_state
                nds == r.st.channels[cur].dma_state
            IN  /\ s' = r.st
                /\ pc' = IF r.brk THEN "idle" ELSE "pull"
                /\ log' = [log EXCEPT ![cur] =
                             IF r.exec
                             THEN Append(@, [kind |-> "exec", subc |-> ds.subc,
                                             mthd |-> ds.mthd, param |-> r.word])
                             ELSE IF word_kind(r.word) = "header"
                             THEN Append(@, [kind |-> "hdr", n |-> nds.mcnt,
                                             subc |-> nds.subc, mthd |-> nds.mthd,
                                             ni |-> nds.ni,
                                             at |-> Val(s.fifo_cache1_dma_get)])
                             ELSE @]
                /\ obs' = [op |-> "step", chid |-> cur, exec |-> r.exec,
                           word |-> r.word, subc |-> ds.subc, mthd |-> ds.mthd,
                           before |-> s]
                /\ UNCHANGED <<cur, swout>>

\* A guest write, through the RAMIN window, of the semaphore word in the
\* RAMFC record of a channel that is not the current one.
RamfcGuestWrite ==
    /\ pc = "idle"
    /\ \E c \in GuestChannels :
         LET a == geforce_ramfc_address(s, c, sro(s.card_type))
         IN  /\ c # curchid(s)
             /\ geforce_ramin_read32(s, a) # SemValue
             /\ InRaminWindow(Add32(W(\h70, 0), a))
             /\ s' = mmio_write_ramin(s, Add32(W(\h70, 0), a), SemValue)
             /\ swout' = IF swout[c] = << >> THEN swout
                         ELSE [swout EXCEPT ![c].touched = TRUE]
    /\ obs' = NoObs
    /\ UNCHANGED <<pc, cur, log, tick>>

Next == MmioWriteChannelPut \/ FifoStep \/ RamfcGuestWrite

Spec == Init /\ [][Next]_vars

\* A pass of the loop in progress.  tick is the parity of the number of
\* passes made, and FifoStep is the only action that changes it: a step that
\* changes tick is a pass of the loop, and one can be taken exactly when
\* pc = "pull".
FifoPass == pc = "pull" /\ tick' = 1 - tick

\* geforce_fifo_process runs to completion in the thread that made the MMIO
\* write: while the loop has a pass to make, the pass is eventually made.
FairSpec == Spec /\ WF_tick(FifoPass)

-----------------------------------------------------------------------------
(* Properties of the ring puller.                                          *)

\* the channel a switch has just made current, and what was recorded when
\* it was last switched out
Reloaded(c) == obs.op = "switch" /\ obs.chid = c /\ swout[c] # << >>

RingWord(c, o) == ldl_le_p(s.vram, RingBase(c) + o)

\* the index of the last header entry of L before index i, 0 if none
LastHeader(L, i) ==
    IF \E j \in 1 .. (i - 1) : L[j].kind = "hdr"
    THEN CHOOSE j \in 1 .. (i - 1) :
            /\ L[j].kind = "hdr"
            /\ \A k \in (j + 1) .. (i - 1) : L[k].kind = "exec"
    ELSE 0

\* C4: a header with run length n, subchannel s and method m is followed
\* by exactly n dispatches on subchannel s before anything else is decoded;
\* the k-th goes to method m + k - 1, or to m when non-increment is set,
\* and carries the k-th ring word after the header whatever its bits; a
\* header with n = 0 dispatches nothing.
C4_HeaderRun ==
    \A c \in GuestChannels :
        \A i \in 1 .. Len(log[c]) :
            LET L == log[c]
                h == LastHeader(L, i)
                k == i - h
            IN  IF L[i].kind = "exec"
                THEN /\ h > 0
                     /\ k <= L[h].n
                     /\ L[i].subc = L[h].subc
                     /\ L[i].mthd = IF L[h].ni THEN L[h].mthd
                                    ELSE L[h].mthd + k - 1
                     /\ L[i].param = RingWord(c, L[h].at + 4 * k)
                ELSE h > 0 => k - 1 = L[h].n

\* channel 5 has run its three headers: 3 words to 0x100, 0x101, 0x102
\* (shaped like a jump, a return and a call), 2 words to 0x100 with
\* non-increment set (shaped like a header and an old jump), and none
C4_Witness ==
    LET L == log[5]
    IN  /\ Len(L) = 12
        /\ L[5] = [kind |-> "hdr", n |-> 3, subc |-> 2, mthd |-> \h100,
                   ni |-> FALSE, at |-> \h10]
        /\ L[6] = [kind |-> "exec", subc |-> 2, mthd |-> \h100,
                   param |-> W(0, \h0081)]
        /\ L[7] = [kind |-> "exec", subc |-> 2, mthd |-> \h101,
                   param |-> W(\h0002, 0)]
        /\ L[8] = [kind |-> "exec", subc |-> 2, mthd |-> \h102,
                   param |-> W(0, \h0082)]
        /\ L[9].kind = "hdr" /\ L[9].ni /\ L[9].n = 2
        /\ L[10] = [kind |-> "exec", subc |-> 2, mthd |-> \h100,
                    param |-> W(\h0004, \h6000)]
        /\ L[11] = [kind |-> "exec", subc |-> 2, mthd |-> \h100,
                    param |-> W(\h2000, 0)]
        /\ L[12].kind = "hdr" /\ L[12].n = 0
        /\ pc = "idle"
        /\ s.fifo_cache1_dma_get = W(0, \h4C)

\* the loop has just decoded a word that is a call while a subroutine was
\* active, or a return while none was
Suppressed ==
    /\ obs.op = "step"
    /\ ~obs.exec
    /\ LET ch == obs.before.channels[obs.chid]
       IN  \/ /\ word_kind(obs.word) = "call"
              /\ ch.subr_active
           \/ /\ obs.word = W(\h0002, 0)
              /\ ~ch.subr_active

\* C5: a call fetched while a subroutine is active and a return fetched
\* while none is change nothing but the get cursor, which is 4 further.
C5_SuppressedControlFlow ==
    Suppressed =>
        s = [obs.before EXCEPT !.fifo_cache1_dma_get = Add32(@, U32(4))]

\* the call at 0x80 of channel 5's ring was fetched inside the subroutine
\* entered from 0x34
C5_Witness ==
    /\ Suppressed
    /\ obs.chid = 5
    /\ obs.word = W(0, \h0092)
    /\ obs.before.fifo_cache1_dma_get = W(0, \h80)
    /\ s.fifo_cache1_dma_get = W(0, \h84)
    /\ s.channels[5].subr_active
    /\ s.channels[5].subr_return = W(0, \h38)

\* the return at 0x30 of channel 5's ring was fetched with no subroutine
\* active
C5_WitnessReturn ==
    /\ Suppressed
    /\ obs.chid = 5
    /\ obs.word = W(\h0002, 0)
    /\ obs.before.fifo_cache1_dma_get = W(0, \h30)
    /\ s.fifo_cache1_dma_get = W(0, \h34)
    /\ ~s.channels[5].subr_active

\* the handle table of st maps handle HA to object 0x1000, engine 1,
\* channel 5 (slot 511 of the table at RAMIN 0x4000)
HandlePresent(st) ==
    /\ geforce_ramin_read32(st, W(0, \h4FF8)) = HA
    /\ geforce_ramin_read32(st, W(0, \h4FFC)) = W(\h0501, \h0100)

\* the class of the object at RAMIN 0x1000 is the raster-op class
RopClass(st) ==
    And32(geforce_ramin_read32(st, W(0, \h1000)),
          class_mask(st.card_type))[2] % 256 = \h43

\* the loop has just dispatched method m with parameter p on subchannel 3
\* of channel 5
Dispatched(m, p) ==
    /\ obs.op = "step"
    /\ obs.exec
    /\ obs.chid = 5
    /\ obs.subc = 3
    /\ obs.mthd = m
    /\ obs.word = p

\* C6: with HA in the handle table, method 0 with parameter HA on
\* subchannel 3 of channel 5 binds object 0x1000 and engine 1 to the
\* subchannel; with that object of the raster-op class, method 0x0c0 with
\* parameter 0x0c then sets channel 5's rop to 0x0c and leaves every other
\* channel's rop alone.
C6_BindAndExecute ==
    /\ (Dispatched(0, HA) /\ HandlePresent(obs.before)) =>
           /\ s.channels[5].schs[3].object = W(0, \h1000)
           /\ s.channels[5].schs[3].engine = 1
    /\ ( /\ Dispatched(\h0c0, W(0, \h000C))
         /\ obs.before.channels[5].schs[3].object = W(0, \h1000)
         /\ obs.before.channels[5].schs[3].engine = 1
         /\ RopClass(obs.before) ) =>
           /\ s.channels[5].rop = \h0c
           /\ \A c \in Channels \ {5} :
                  s.channels[c].rop = obs.before.channels[c].rop

\* the rop method has just run on the subchannel the bind set up
C6_Witness ==
    /\ Dispatched(\h0c0, W(0, \h000C))
    /\ HandlePresent(obs.before)
    /\ RopClass(obs.before)
    /\ obs.before.channels[5].schs[3].object = W(0, \h1000)
    /\ obs.before.channels[5].schs[3].engine = 1
    /\ obs.before.channels[5].rop = 0
    /\ s.channels[5].rop = \h0c
    /\ s.channels[5].schs[3].object = W(0, \h1000)

\* C10: every invocation of the ring puller terminates: once the loop is
\* entered it is eventually left.
C10_PullerTerminates == (pc = "pull") ~> (pc = "idle")

\* the loop has just dispatched a parameter word and the dispatcher took
\* the software-method path: the software-method queue has advanced
SoftwareDispatch ==
    /\ obs.op = "step"
    /\ obs.exec
    /\ s.fifo_cache1_put # obs.before.fifo_cache1_put

\* C11: when the dispatch of a parameter word takes the software-method
\* path, the invocation ends with the get cursor back on that word and the
\* pending method id and run length as they were.
C11_DeferralRewinds ==
    SoftwareDispatch =>
        /\ pc = "idle"
        /\ s.fifo_cache1_dma_get = obs.before.fifo_cache1_dma_get
        /\ s.channels[obs.chid].dma_state =
               obs.before.channels[obs.chid].dma_state

-----------------------------------------------------------------------------
(* SpecExec and SpecSoft: the method dispatcher, geforce_execute_command,  *)
(* applied to methods of channel 5; SpecExec issues the methods of the     *)
(* graphics path, SpecSoft those of the software-method path and guest     *)
(* writes to the queue's put register.                                     *)
(* The guest has stored in RAMIN a raster-op                               *)
(* object (handle HA), a memory-to-memory object (HM), a software object   *)
(* (HS, engine 0), two notifier descriptors (the second one, named by HB,  *)
(* idle: its status byte reads 0x30), and has filled the notifier areas    *)
(* in video memory with a marker.  Handle HN is in no slot of the table.   *)

HS == W(0, \h00A1)
HM == W(0, \h00A2)
HN == W(0, \h00A3)

\* RAMIN offsets of the objects
RopObject == W(0, \h1000)
M2mfObject == W(0, \h1100)
SoftObject == W(0, \h0400)
Notifier == W(0, \h0200)
IdleNotifier == W(0, \h0300)

\* where the notifier descriptors point in video memory
NotifierArea == W(\h0001, \h2000)
IdleNotifierArea == W(\h0001, \h3000)

NotifierMarker == W(\hAAAA, \hAAAA)

ExecChid == 5

ExecRamin ==
    << <<W(0, \h4FF8), HA>>,                \* RAMHT slot 511
       <<W(0, \h4FFC), W(\h0501, \h0100)>>, \*   channel 5, engine 1, 0x1000
       <<W(0, \h4000), HB>>,                \* RAMHT slot 0 (511 is taken)
       <<W(0, \h4004), W(\h0500, \h0030)>>, \*   channel 5, engine 0, 0x0300
       <<W(0, \h4008), HS>>,                \* RAMHT slot 1
       <<W(0, \h400C), W(\h0500, \h0040)>>, \*   channel 5, engine 0, 0x0400
       <<W(0, \h4010), HM>>,                \* RAMHT slot 2
       <<W(0, \h4014), W(\h0501, \h0110)>>, \*   channel 5, engine 1, 0x1100
       <<W(0, \h1000), W(0, \h0043)>>,      \* raster-op object: class 0x43
       <<W(0, \h1004), W(\h0020, 0)>>,      \*   notifier 0x0200
       <<W(0, \h1100), W(0, \h0039)>>,      \* m2mf object: class 0x39
       <<W(0, \h1104), W(\h0020, 0)>>,      \*   notifier 0x0200
       <<W(0, \h0400), W(0, \h006E)>>,      \* software object
       <<W(0, \h0200), W(0, \h2000)>>,      \* notifier: linear, vram
       <<W(0, \h0204), W(0, \h0FFF)>>,      \*   limit
       <<W(0, \h0208), W(\h0001, \h2000)>>, \*   base 0x12000
       <<W(0, \h0300), W(0, \h2030)>>,      \* idle notifier: status 0x30
       <<W(0, \h0304), W(0, \h0FFF)>>,      \*   limit
       <<W(0, \h0308), W(\h0001, \h3000)>> >> \* base 0x13000

ExecWords(ct) ==
    {<<Val(Xor32(ExecRamin[i][1], ramin_flip(ct))), ExecRamin[i][2]>> :
        i \in DOMAIN ExecRamin}
    \cup {<<Val(a) + 4 * k, NotifierMarker>> :
            a \in {NotifierArea, IdleNotifierArea}, k \in 0 .. 3}

ExecMemory(ct) ==
    LET cells == {<<w[1] + i, ByteOf(w[2], i)>> : w \in ExecWords(ct), i \in 0 .. 3}
        nz == {c \in cells : c[2] # 0}
    IN  [a \in {c[1] : c \in nz} |-> (CHOOSE c \in nz : c[1] = a)[2]]

\* the device after the guest's set-up
ExecImage(ct) ==
    [mmio_write_fifo_ramht(geforce_reset(ct), W(0, \h0040))
     EXCEPT !.vram = ExecMemory(ct)]

\* The methods SpecExec dispatches: subchannel 3 is the one objects are
\* bound to, subchannel 2 never has an object.
ExecInputs ==
    { [subc |-> 3, mthd |-> 0, param |-> HM],
      [subc |-> 3, mthd |-> 0, param |-> HN],
      [subc |-> 3, mthd |-> \h041, param |-> U32(1)],
      [subc |-> 3, mthd |-> \h041, param |-> Zero],
      [subc |-> 3, mthd |-> \h0c3, param |-> HB],
      [subc |-> 3, mthd |-> \h060, param |-> HB],
      [subc |-> 3, mthd |-> \h060, param |-> HN],
      [subc |-> 3, mthd |-> \h061, param |-> HB],
      [subc |-> 3, mthd |-> \h061, param |-> HN],
      [subc |-> 2, mthd |-> \h041, param |-> U32(1)] }

\* the methods SpecSoft dispatches
SoftInputs ==
    { [subc |-> 3, mthd |-> 0, param |-> HS],
      [subc |-> 3, mthd |-> 0, param |-> HA],
      [subc |-> 3, mthd |-> \h0c0, param |-> W(0, \h005A)],
      [subc |-> 2, mthd |-> \h100, param |-> W(0, \h0077)],
      [subc |-> 2, mthd |-> \h014, param |-> W(0, \h0055)],
      [subc |-> 2, mthd |-> \h020, param |-> U32(1)] }

\* values the guest writes to PFIFO_CACHE1_PUT
Cache1PutValues == { W(0, \h00FC), W(0, \h0400) }

MaxExec == 3
MaxSoft == 3

\* val & ~mask
Clear32(val, mask) == And32(val, Xor32(mask, W(\hFFFF, \hFFFF)))

\* case 0x003270 of geforce_mmio_write
mmio_write_cache1_get(st, val) ==
    LET get == And32(val, U32(GEFORCE_CACHE1_SIZE * 4 - 1))
    IN  geforce_update_irq(
            IF get # st.fifo_cache1_put
            THEN [st EXCEPT !.fifo_cache1_get = get,
                            !.fifo_intr = Or32(st.fifo_intr, U32(1))]
            ELSE [st EXCEPT !.fifo_cache1_get = get,
                            !.fifo_intr = Clear32(st.fifo_intr, U32(1)),
                            !.fifo_cache1_pull0 =
                                Clear32(st.fifo_cache1_pull0, W(0, \h0100))])

\* geforce_mmio_write, case 0x3210: the value is stored as it is
mmio_write_cache1_put(st, val) == [st EXCEPT !.fifo_cache1_put = val]

\* the software-method branch would store outside fifo_cache1_method and
\* fifo_cache1_data
queue_overrun(st) == Val(st.fifo_cache1_put) \div 4 >= GEFORCE_CACHE1_SIZE

\* What a store outside the two arrays can do.  In GeForceState the arrays
\* are followed by the timer, RAMDAC and strap registers and then by
\* channels[]: a store past the arrays lands in a field this model does
\* not keep ("stray") or in a word of a channel record ("record"), or the
\* process stops ("crash").
QueueUbOutcomes == {"stray", "record", "crash"}

\* the channels whose record a store past the arrays is taken to hit
StrayChannels == {0, ExecChid}

\* The subchannel set-up a dispatch starts from: nothing bound, or the
\* memory-to-memory object bound to subchannel 3 by an earlier bind.
InitExec ==
    /\ \/ s = ExecImage(GEFORCE_3)
       \/ s = geforce_execute_command(ExecImage(GEFORCE_3), ExecChid, 3, 0, HM,
                                      NowStamp).st
    /\ GhostInit

\* One call of geforce_execute_command.  When the software-method branch
\* indexes outside the queue arrays the stores are undefined behaviour:
\* they land outside the arrays, the store of the parameter possibly in the
\* first word of a channel record, or the process stops.
execute_step(inputs) ==
    \E in \in inputs :
    \E r \in {geforce_execute_command(s, ExecChid, in.subc, in.mthd,
                                      in.param, NowStamp)} :
      LET pushed == r.st.fifo_cache1_put # s.fifo_cache1_put
      IN  IF pushed /\ queue_overrun(s)
          THEN \E u \in QueueUbOutcomes, k \in StrayChannels :
                 /\ obs' = [op |-> IF u = "crash" THEN "crash" ELSE "exec",
                            subc |-> in.subc, mthd |-> in.mthd,
                            param |-> in.param, overrun |-> TRUE,
                            before |-> s]
                 /\ s' = IF u = "crash" THEN s
                         ELSE IF u = "record"
                         THEN [r.st EXCEPT !.channels[k].subr_return = in.param]
                         ELSE r.st
          ELSE /\ obs' = [op |-> "exec", subc |-> in.subc,
                          mthd |-> in.mthd, param |-> in.param,
                          overrun |-> FALSE, before |-> s]
               /\ s' = r.st

ExecCommand ==
    /\ Len(log) < MaxExec
    /\ log' = Append(log, "exec")
    /\ execute_step(ExecInputs)
    /\ UNCHANGED <<pc, cur, swout, tick>>

NextExec == ExecCommand

SpecExec == InitExec /\ [][NextExec]_vars

InitSoft ==
    /\ \E ct \in Models : s = ExecImage(ct)
    /\ GhostInit

SoftCommand ==
    /\ obs.op # "crash"
    /\ Len(log) < MaxSoft
    /\ log' = Append(log, "exec")
    /\ execute_step(SoftInputs)
    /\ UNCHANGED <<pc, cur, swout, tick>>

\* a guest write to PFIFO_CACHE1_PUT
MmioWriteCache1Put ==
    /\ obs.op # "crash"
    /\ Len(log) < MaxSoft
    /\ \E val \in Cache1PutValues :
         /\ s' = mmio_write_cache1_put(s, val)
         /\ obs' = [op |-> "cache1_put", val |-> val]
    /\ log' = Append(log, "write")
    /\ UNCHANGED <<pc, cur, swout, tick>>

\* values the guest writes to PFIFO_CACHE1_GET
Cache1GetValues == { Zero, W(0, \h0104) }

\* a guest write to PFIFO_CACHE1_GET
MmioWriteCache1Get ==
    /\ obs.op # "crash"
    /\ Len(log) < MaxSoft
    /\ \E val \in Cache1GetValues :
         /\ s' = mmio_write_cache1_get(s, val)
         /\ obs' = [op |-> "cache1_get", val |-> val]
    /\ log' = Append(log, "get")
    /\ UNCHANGED <<pc, cur, swout, tick>>

NextSoft == SoftCommand \/ MmioWriteCache1Put \/ MmioWriteCache1Get

SpecSoft == InitSoft /\ [][NextSoft]_vars

\* the subchannel a dispatch of SpecExec or SpecSoft was sent to
SchBefore == obs.before.channels[ExecChid].schs[obs.subc]
SchAfter == s.channels[ExecChid].schs[obs.subc]

\* the slot of the software-method queue the put index named before the
\* dispatch
PutSlot == Val(obs.before.fifo_cache1_put) \div 4

\* C12: a dispatch, of any method id and parameter, to a subchannel whose
\* engine id is 0 (for a bind: is 0 once the handle is looked up) appends
\* the pair (method, param) at the put index, advances the put index by one
\* slot, wrapping after 64 slots, sets bit 0 of the FIFO interrupt source,
\* and runs no class handler.
C12_SoftwarePath ==
    (/\ obs.op \in {"exec", "crash"}
     /\ SchBefore.engine = 0
     /\ obs.mthd = 0 => SchAfter.engine = 0) =>
        /\ obs.op = "exec"
        /\ PutSlot \in 0 .. GEFORCE_CACHE1_SIZE - 1
        /\ s.fifo_cache1_method[PutSlot] =
               Or32(Shl32(U32(obs.mthd), 2), Shl32(U32(obs.subc), 13))
        /\ s.fifo_cache1_data[PutSlot] = obs.param
        /\ \A i \in 0 .. GEFORCE_CACHE1_SIZE - 1 :
               i # PutSlot =>
                   /\ s.fifo_cache1_method[i] = obs.before.fifo_cache1_method[i]
                   /\ s.fifo_cache1_data[i] = obs.before.fifo_cache1_data[i]
        /\ Val(s.fifo_cache1_put) = ((PutSlot + 1) % GEFORCE_CACHE1_SIZE) * 4
        /\ s.fifo_intr[2] % 2 = 1
        /\ s.channels = obs.before.channels

\* the part of C12 the dispatcher keeps while the put index names a slot of
\* the queue and the method is a bind or has an id of 0x40 or more
C12_InRange ==
    (/\ obs.op \in {"exec", "crash"}
     /\ SchBefore.engine = 0
     /\ obs.mthd = 0 => SchAfter.engine = 0
     /\ obs.mthd = 0 \/ obs.mthd >= \h040
     /\ ~queue_overrun(obs.before)) =>
        /\ obs.op = "exec"
        /\ s.fifo_cache1_data[PutSlot] = obs.param
        /\ Val(s.fifo_cache1_put) = ((PutSlot + 1) % GEFORCE_CACHE1_SIZE) * 4
        /\ s.fifo_intr[2] % 2 = 1

\* the dispatch that overruns the queue
C12_Overrun ==
    /\ obs.op \in {"exec", "crash"}
    /\ obs.overrun

\* the put index wrapped after the last slot
C12_Wrapped ==
    /\ obs.op = "exec"
    /\ PutSlot = GEFORCE_CACHE1_SIZE - 1
    /\ s.fifo_cache1_put = Zero

\* the dispatch was a bind whose handle the resolver did not find
FailedBind ==
    /\ obs.op = "exec"
    /\ obs.mthd = 0
    /\ ~geforce_ramht_lookup(obs.before, obs.param, ExecChid,
                             CallerObject, CallerEngine).found

\* C13: after a bind whose handle does not resolve for the channel the
\* subchannel is unbound: its engine id is 0 and it names no object,
\* whatever was bound to it before, so that the methods that follow take
\* the software-method path.
C13_FailedBindUnbinds ==
    FailedBind =>
        /\ SchAfter.engine = 0
        /\ SchAfter.object = Zero

\* a failed bind on a subchannel nothing was bound to leaves it unbound and
\* queues the bind as a software method
C13_FreshSubchannel ==
    (FailedBind /\ SchBefore.engine = 0) =>
        /\ SchAfter = SchBefore
        /\ s.fifo_cache1_put # obs.before.fifo_cache1_put

\* a failed bind on a subchannel bound to a graphics-engine object
C13_StaleBinding ==
    /\ FailedBind
    /\ SchBefore.engine = 1
    /\ SchAfter.engine = 1
    /\ SchAfter.object = M2mfObject

ChBefore == obs.before.channels[ExecChid]
ChAfter == s.channels[ExecChid]

\* C14: a dispatch of method 0x41 with parameter p to a subchannel bound to
\* the graphics engine (engine id 1) sets the channel's pending-notification
\* flag and records p as the channel's notification type.
C14_ArmNotification ==
    (obs.op = "exec" /\ obs.mthd = \h041 /\ SchBefore.engine = 1) =>
        /\ ChAfter.notify_pending
        /\ ChAfter.notify_type = obs.param

\* C14 as stated: the flag is set and p recorded whatever engine is bound
\* to the subchannel.
C14_ArmAnyEngine ==
    (obs.op = "exec" /\ obs.mthd = \h041) =>
        /\ ChAfter.notify_pending
        /\ ChAfter.notify_type = obs.param

\* method 0x41 armed a channel that had no notification pending and
\* replaced the recorded type
C14_Witness ==
    /\ obs.op = "exec"
    /\ obs.mthd = \h041
    /\ SchBefore.engine = 1
    /\ ~ChBefore.notify_pending
    /\ ChBefore.notify_type # obs.param
    /\ ChAfter.notify_pending
    /\ ChAfter.notify_type = U32(1)

\* Where a notifier reference points in video memory.  A reference that
\* names neither descriptor of the image reads as an all-zero descriptor:
\* a page table whose page 0 is video memory 0.
AreaOf(n) ==
    IF n = Notifier THEN NotifierArea
    ELSE IF n = IdleNotifier THEN IdleNotifierArea
    ELSE Zero

\* the four words of a notifier area
AreaWords(st, a) ==
    [k \in 0 .. 3 |-> geforce_vram_read32(st, Add32(a, U32(4 * k)))]

Areas == {NotifierArea, IdleNotifierArea, Zero}

\* the words a delivery writes: the time stamp, low word first, and two
\* zeroed status words
Completion ==
    [k \in 0 .. 3 |-> IF k = 0 THEN NowStamp[2]
                      ELSE IF k = 1 THEN NowStamp[1] ELSE Zero]

\* the dispatch is the one that delivers a pending notification: a method
\* of 0x40 or more on a subchannel bound to the graphics engine
Delivers ==
    /\ obs.op = "exec"
    /\ obs.mthd >= \h040
    /\ SchBefore.engine = 1
    /\ ChBefore.notify_pending

\* the status byte of the notifier the delivering subchannel refers to
StatusByte == geforce_ramin_read32(obs.before, SchBefore.notifier)[2] % 256

\* C15: a pending notification is delivered by the next method >= 0x40
\* dispatched to a graphics-engine subchannel of the channel: the flag is
\* cleared (and set anew only when that method is itself 0x41); unless the
\* status byte of the subchannel's notifier reads 0x30 the time stamp and
\* two zeroed status words are written to the notifier's area; when the
\* recorded type is non-zero bit 0 of the graphics interrupt source is set
\* and the notify status becomes 0x00110000.  Every other dispatch, the
\* arming 0x41 and the methods after a delivery included, writes no
\* notifier area, raises no graphics interrupt and clears no flag.
C15_Delivery ==
    obs.op = "exec" =>
        IF Delivers
        THEN /\ ChAfter.notify_pending = (obs.mthd = \h041)
             /\ \A a \in Areas :
                    AreaWords(s, a) =
                        IF StatusByte # \h30 /\ a = AreaOf(SchBefore.notifier)
                        THEN Completion
                        ELSE AreaWords(obs.before, a)
             /\ IF ChBefore.notify_type # Zero
                THEN /\ s.graph_intr[2] % 2 = 1
                     /\ s.graph_notify = W(\h0011, 0)
                ELSE /\ s.graph_intr = obs.before.graph_intr
                     /\ s.graph_notify = obs.before.graph_notify
        ELSE /\ \A a \in Areas : AreaWords(s, a) = AreaWords(obs.before, a)
             /\ s.graph_intr = obs.before.graph_intr
             /\ s.graph_notify = obs.before.graph_notify
             /\ ChBefore.notify_pending => ChAfter.notify_pending

\* a notification of non-zero type was delivered to the notifier the bound
\* object names: the marker in its area gave way to the completion
C15_Witness ==
    /\ Delivers
    /\ obs.mthd = \h0c3
    /\ ChBefore.notify_type = U32(1)
    /\ SchBefore.notifier = Notifier
    /\ AreaWords(obs.before, NotifierArea) = [k \in 0 .. 3 |-> NotifierMarker]
    /\ AreaWords(s, NotifierArea) = Completion
    /\ ~ChAfter.notify_pending
    /\ s.graph_notify = W(\h0011, 0)

\* a notification was due on a subchannel whose notifier is idle: nothing
\* was written
C15_WitnessIdle ==
    /\ Delivers
    /\ StatusByte = \h30
    /\ AreaWords(s, IdleNotifierArea) = [k \in 0 .. 3 |-> NotifierMarker]
    /\ ~ChAfter.notify_pending

\* a method after the delivery: nothing is pending any more
C15_WitnessOnce ==
    /\ obs.op = "exec"
    /\ obs.mthd = \h0c3
    /\ SchBefore.engine = 1
    /\ ~ChBefore.notify_pending
    /\ AreaWords(obs.before, NotifierArea) = Completion

\* the object address each handle of the image names for channel 5; HN
\* names none
ImageHandles == {HA, HB, HS, HM}

ObjectOf(h) ==
    IF h = HA THEN RopObject
    ELSE IF h = HB THEN IdleNotifier
    ELSE IF h = HS THEN SoftObject
    ELSE M2mfObject

\* the dispatch went to the class handler of the memory-to-memory object
ToM2mf ==
    /\ obs.op = "exec"
    /\ SchBefore.engine = 1
    /\ SchBefore.object = M2mfObject

\* C16: the class handler of a graphics-engine subchannel receives, for a
\* method id in [0x60, 0x80), the object address the parameter resolves to
\* as a handle of the channel and never the raw handle (method 0x61 stores
\* what it receives in m2mf_src), and for a method id outside that range
\* the parameter as it is (method 0xc3 stores it in m2mf_src_offset).
C16_IndirectResolved ==
    ToM2mf =>
        /\ obs.mthd = \h061 =>
               /\ obs.param \in ImageHandles
               /\ ChAfter.m2mf_src = ObjectOf(obs.param)
        /\ obs.mthd = \h0c3 => ChAfter.m2mf_src_offset = obs.param

\* what the dispatcher keeps of C16: a handle that resolves is replaced by
\* its object address, a direct parameter is passed as it is
C16_ResolvedHandles ==
    ToM2mf =>
        /\ (obs.mthd = \h061 /\ obs.param \in ImageHandles) =>
               ChAfter.m2mf_src = ObjectOf(obs.param)
        /\ obs.mthd = \h0c3 => ChAfter.m2mf_src_offset = obs.param

\* the handler received the raw handle
C16_RawHandle ==
    /\ ToM2mf
    /\ obs.mthd = \h061
    /\ obs.param = HN
    /\ ChAfter.m2mf_src = HN

\* the handler received the object address HB names
C16_Resolved ==
    /\ ToM2mf
    /\ obs.mthd = \h061
    /\ obs.param = HB
    /\ ChAfter.m2mf_src = IdleNotifier

\* the notifier references of every subchannel of every channel but the
\* one dispatched to
OtherNotifiers(st) ==
    [c \in Channels |->
        [i \in Subchannels |->
            IF c = ExecChid /\ i = obs.subc THEN Zero
            ELSE st.channels[c].schs[i].notifier]]

\* C17: a dispatch of method 0x60 with parameter p to a subchannel bound to
\* the graphics engine sets that subchannel's notifier reference to the
\* object address p resolves to as a handle of the channel, or to p itself
\* when p does not resolve, and leaves every other notifier reference
\* unchanged.
C17_NotifierOverride ==
    (obs.op = "exec" /\ obs.mthd = \h060 /\ SchBefore.engine = 1) =>
        /\ SchAfter.notifier =
               IF obs.param \in ImageHandles THEN ObjectOf(obs.param)
               ELSE obs.param
        /\ OtherNotifiers(s) = OtherNotifiers(obs.before)

\* C17 as stated: the notifier reference becomes p.
C17_NotifierIsParameter ==
    (obs.op = "exec" /\ obs.mthd = \h060) =>
        /\ SchAfter.notifier = obs.param
        /\ OtherNotifiers(s) = OtherNotifiers(obs.before)

\* method 0x60 with handle HB replaced the notifier the bound object names
\* by the descriptor HB names
C17_Witness ==
    /\ obs.op = "exec"
    /\ obs.mthd = \h060
    /\ obs.param = HB
    /\ SchBefore.engine = 1
    /\ SchBefore.notifier = Notifier
    /\ SchAfter.notifier = IdleNotifier

-----------------------------------------------------------------------------
(* SpecIrq: the interrupt line under register writes, method dispatch,     *)
(* the periodic timer and device reset.  The device starts from the image  *)
(* of SpecExec with the memory-to-memory object bound to subchannel 3,     *)
(* with every interrupt enable clear or with the master enable and the     *)
(* four source enables set by the guest.                                   *)

\* the while loop of geforce_fifo_process, run until it is left
RECURSIVE fifo_loop(_, _)
fifo_loop(st, chid) ==
    LET next(r) == IF r.brk THEN r.st ELSE fifo_loop(r.st, chid)
    IN  IF st.fifo_cache1_dma_get = st.fifo_cache1_dma_put THEN st
        ELSE next(fifo_iter(st, chid, Zero, NowStamp))

\* one call of geforce_fifo_process
geforce_fifo_process(st, chid) ==
    IF fifo_idle(st, chid) THEN st
    ELSE fifo_loop(fifo_switch(st, chid), chid)

\* for (i = 0; i < GEFORCE_CHANNEL_COUNT; i++) geforce_fifo_process(s, i)
RECURSIVE fifo_process_from(_, _)
fifo_process_from(st, i) ==
    IF i = GEFORCE_CHANNEL_COUNT THEN st
    ELSE fifo_process_from(geforce_fifo_process(st, i), i + 1)

\* geforce_vblank_timer
geforce_vblank_timer(st) ==
    LET redrive(st1) ==
            IF st1.acquire_active
            THEN fifo_process_from([st1 EXCEPT !.acquire_active = FALSE], 0)
            ELSE st1
    IN  redrive(geforce_update_irq(
                    [st EXCEPT !.crtc_intr = Or32(st.crtc_intr, U32(1))]))

\* geforce_reset on a device in use: the fields it assigns; the interrupt
\* line is not driven
device_reset(st) ==
    [st EXCEPT !.channels = [c \in Channels |-> GeForceChannel0],
               !.mc_intr_en = Zero,
               !.bus_intr = Zero, !.bus_intr_en = Zero,
               !.fifo_intr = Zero, !.fifo_intr_en = Zero,
               !.graph_intr = Zero, !.graph_intr_en = Zero,
               !.crtc_intr = Zero, !.crtc_intr_en = Zero,
               !.fifo_cache1_put = Zero, !.fifo_cache1_get = Zero,
               !.fifo_cache1_dma_put = Zero, !.fifo_cache1_dma_get = Zero]

PMC_INTR_EN == W(0, \h0140)
PBUS_INTR == W(0, \h1100)
PBUS_INTR_EN == W(0, \h1140)
PFIFO_INTR == W(0, \h2100)
PFIFO_INTR_EN == W(0, \h2140)
PFIFO_CACHE1_GET == W(0, \h3270)
PGRAPH_INTR == W(\h0040, \h0100)
PGRAPH_INTR_EN_NV40 == W(\h0040, \h013C)
PGRAPH_INTR_EN == W(\h0040, \h0140)
PCRTC_INTR_0 == W(\h0060, \h0100)
PCRTC_INTR_EN_0 == W(\h0060, \h0140)

\* the interrupt registers of geforce_mmio_write
mmio_write_intr(st, addr, val) ==
    CASE addr = PMC_INTR_EN ->
            geforce_update_irq([st EXCEPT !.mc_intr_en = val])
      [] addr = PBUS_INTR ->
            geforce_update_irq([st EXCEPT !.bus_intr = Clear32(st.bus_intr, val)])
      [] addr = PBUS_INTR_EN ->
            geforce_update_irq([st EXCEPT !.bus_intr_en = val])
      [] addr = PFIFO_INTR ->
            geforce_update_irq([st EXCEPT !.fifo_intr = Clear32(st.fifo_intr, val)])
      [] addr = PFIFO_INTR_EN ->
            geforce_update_irq([st EXCEPT !.fifo_intr_en = val])
      [] addr = PFIFO_CACHE1_GET -> mmio_write_cache1_get(st, val)
      [] addr = PGRAPH_INTR ->
            geforce_update_irq([st EXCEPT !.graph_intr = Clear32(st.graph_intr, val)])
      [] addr = PGRAPH_INTR_EN_NV40 ->
            IF st.card_type >= \h40
            THEN geforce_update_irq([st EXCEPT !.graph_intr_en = val])
            ELSE st
      [] addr = PGRAPH_INTR_EN ->
            IF st.card_type < \h40
            THEN geforce_update_irq([st EXCEPT !.graph_intr_en = val])
            ELSE st
      [] addr = PCRTC_INTR_0 ->
            geforce_update_irq([st EXCEPT !.crtc_intr = Clear32(st.crtc_intr, val)])
      [] addr = PCRTC_INTR_EN_0 ->
            geforce_update_irq([st EXCEPT !.crtc_intr_en = val])

IntrRegs ==
    { PMC_INTR_EN, PBUS_INTR, PBUS_INTR_EN, PFIFO_INTR, PFIFO_INTR_EN,
      PFIFO_CACHE1_GET, PGRAPH_INTR, PGRAPH_INTR_EN_NV40, PGRAPH_INTR_EN,
      PCRTC_INTR_0, PCRTC_INTR_EN_0 }

\* values the guest writes to them
IntrValues == { Zero, U32(1) }

\* the methods SpecIrq dispatches
IrqInputs ==
    { [subc |-> 2, mthd |-> \h100, param |-> W(0, \h0077)],
      [subc |-> 3, mthd |-> \h041, param |-> U32(1)],
      [subc |-> 3, mthd |-> \h0c3, param |-> HB] }

MaxIrqOps == 3

\* the device with the memory-to-memory object bound to subchannel 3
IrqImage ==
    geforce_execute_command(ExecImage(GEFORCE_3), ExecChid, 3, 0, HM,
                            NowStamp).st

\* the guest has set the master enable and the four source enables
IrqEnabled(st) ==
    mmio_write_intr(
        mmio_write_intr(
            mmio_write_intr(
                mmio_write_intr(
                    mmio_write_intr(st, PBUS_INTR_EN, U32(1)),
                    PFIFO_INTR_EN, U32(1)),
                PGRAPH_INTR_EN, U32(1)),
            PCRTC_INTR_EN_0, U32(1)),
        PMC_INTR_EN, U32(1))

InitIrq ==
    /\ s \in {IrqImage, IrqEnabled(IrqImage)}
    /\ GhostInit

MmioWriteIntr ==
    /\ Len(log) < MaxIrqOps
    /\ \E addr \in IntrRegs, val \in IntrValues :
         /\ s' = mmio_write_intr(s, addr, val)
         /\ obs' = [op |-> "write", addr |-> addr, val |-> val]
    /\ log' = Append(log, "write")
    /\ UNCHANGED <<pc, cur, swout, tick>>

IrqCommand ==
    /\ Len(log) < MaxIrqOps
    /\ \E in \in IrqInputs :
       \E r \in {geforce_execute_command(s, ExecChid, in.subc, in.mthd,
                                         in.param, NowStamp)} :
         /\ s' = r.st
         /\ obs' = [op |-> "exec", subc |-> in.subc, mthd |-> in.mthd,
                    pushed |-> r.st.fifo_cache1_put # s.fifo_cache1_put]
    /\ log' = Append(log, "exec")
    /\ UNCHANGED <<pc, cur, swout, tick>>

\* The timer callback.  redriven: the channels the callback invokes the
\* ring puller for.
VblankTimer ==
    /\ Len(log) < MaxIrqOps
    /\ s' = geforce_vblank_timer(s)
    /\ obs' = [op |-> "timer", acquire |-> s.acquire_active,
               redriven |-> IF s.acquire_active THEN Channels ELSE {},
               before |-> s]
    /\ log' = Append(log, "timer")
    /\ UNCHANGED <<pc, cur, swout, tick>>

DeviceReset ==
    /\ Len(log) < MaxIrqOps
    /\ s' = device_reset(s)
    /\ obs' = [op |-> "reset", line |-> s.irq]
    /\ log' = Append(log, "reset")
    /\ UNCHANGED <<pc, cur, swout, tick>>

NextIrq == MmioWriteIntr \/ IrqCommand \/ VblankTimer \/ DeviceReset

SpecIrq == InitIrq /\ [][NextIrq]_vars

\* C18: once a software method has been deferred the acquire flag is set;
\* a timer callback that finds the flag set clears it and invokes the ring
\* puller for every channel 0 .. 31, and one that finds it clear invokes
\* the ring puller for no channel and changes nothing but the display
\* interrupt source and the interrupt line.
C18_Redrive ==
    /\ (obs.op = "exec" /\ obs.pushed) => s.acquire_active
    /\ obs.op = "timer" =>
           IF obs.acquire
           THEN ~s.acquire_active /\ obs.redriven = Channels
           ELSE /\ obs.redriven = {}
                /\ s = [obs.before EXCEPT !.crtc_intr = s.crtc_intr,
                                          !.irq = s.irq]

\* the flag is clear in every state, so that no timer callback re-drives
C18_FlagNeverSet == ~s.acquire_active

\* a software method was queued and the flag is clear
C18_Deferred ==
    /\ obs.op = "exec"
    /\ obs.pushed
    /\ ~s.acquire_active

\* a timer callback ran after a software method was queued
C18_TimerAfterDeferral ==
    /\ obs.op = "timer"
    /\ obs.before.fifo_cache1_put # Zero
    /\ obs.redriven = {}

\* the master enable bit is set and a source has a pending bit that is
\* enabled
LineLevel ==
    /\ s.mc_intr_en[2] % 2 = 1
    /\ \/ And32(s.bus_intr, s.bus_intr_en) # Zero
       \/ And32(s.fifo_intr, s.fifo_intr_en) # Zero
       \/ And32(s.graph_intr, s.graph_intr_en) # Zero
       \/ And32(s.crtc_intr, s.crtc_intr_en) # Zero

\* C20: after every register write, method dispatch, timer callback and
\* device reset the interrupt line is asserted exactly when the master
\* enable bit is set and one of the bus, FIFO, graphics and display sources
\* has a pending bit that is enabled.
C20_InterruptLine ==
    obs.op \in {"write", "exec", "timer", "reset"} => (s.irq <=> LineLevel)

\* the operations that drive the line leave it at that level: the register
\* writes (but the NV40 graphics enable, which a pre-NV40 device ignores), the
\* timer callback, and a dispatch that queues a software method
C20_DrivenLine ==
    (\/ obs.op = "write" /\ obs.addr # PGRAPH_INTR_EN_NV40
     \/ obs.op = "timer"
     \/ obs.op = "exec" /\ obs.pushed) => (s.irq <=> LineLevel)

\* a reset of a device whose line was asserted: the sources and enables are
\* clear and the line is still asserted
C20_StaleLine ==
    /\ obs.op = "reset"
    /\ obs.line
    /\ s.irq
    /\ ~LineLevel

\* the line was raised by the timer and lowered by the guest's acknowledge
C20_Acknowledged ==
    /\ obs.op = "write"
    /\ obs.addr = PCRTC_INTR_0
    /\ ~s.irq
    /\ s.mc_intr_en = U32(1)
    /\ s.crtc_intr_en = U32(1)
    /\ Len(log) >= 2

-----------------------------------------------------------------------------
(* SpecChan: the ring puller of Spec with guest reads of the channel       *)
(* registers.                                                              *)

\* faulty variant: the live registers are read whatever channel is current
mmio_read_channel_live(st, addr) ==
    LET offset == channel_offset(addr)
    IN  IF offset = \h10 THEN W(0, \hFFFF)
        ELSE IF offset = \h40 THEN st.fifo_cache1_dma_put
        ELSE IF offset = \h44 THEN st.fifo_cache1_dma_get
        ELSE IF offset = \h48 THEN st.fifo_cache1_ref_cnt
        ELSE Zero

\* geforce_mmio_read for an address in a channel window: val is 0 unless a
\* case assigns it
mmio_read_channel(st, addr) ==
    LET chid == channel_of(addr)
        offset == channel_offset(addr)
    IN  IF offset = \h10 THEN W(0, \hFFFF)
        ELSE IF offset >= \h40 /\ offset <= \h48
        THEN IF curchid(st) = chid
             THEN IF offset = \h40 THEN st.fifo_cache1_dma_put
                  ELSE IF offset = \h44 THEN st.fifo_cache1_dma_get
                  ELSE IF offset = \h48 THEN st.fifo_cache1_ref_cnt
                  ELSE Zero
             ELSE IF offset = \h40 THEN geforce_ramfc_read32(st, chid, 0)
                  ELSE IF offset = \h44 THEN geforce_ramfc_read32(st, chid, 4)
                  ELSE IF offset = \h48 THEN geforce_ramfc_read32(st, chid, 8)
                  ELSE Zero
        ELSE Zero

\* The register addresses the guest reads: put, get and reference count of
\* channels 0 and 5 in the first window, the get register of channel 5 in
\* the second window, and the put register of channel 7, which the guest
\* never uses.
ReadAddrs ==
    { W(\h0080, \h0040), W(\h0080, \h0044), W(\h0080, \h0048),
      W(\h0085, \h0040), W(\h0085, \h0044), W(\h0085, \h0048),
      W(\h00C0, \h5044), W(\h0087, \h0040) }

\* a guest read of a channel register; the handler does not run inside
\* another one
MmioReadChannel ==
    /\ pc = "idle"
    /\ \E addr \in ReadAddrs :
         /\ InChannelWindow(addr)
         /\ obs' = [op |-> "read", chid |-> channel_of(addr),
                    reg |-> channel_offset(addr),
                    val |-> mmio_read_channel(s, addr)]
    /\ UNCHANGED <<s, pc, cur, log, swout, tick>>

NextChan ==
    MmioWriteChannelPut \/ FifoStep \/ RamfcGuestWrite \/ MmioReadChannel

SpecChan == Init /\ [][NextChan]_vars

\* the live register a channel register offset names
LiveRegister(reg) ==
    IF reg = \h40 THEN s.fifo_cache1_dma_put
    ELSE IF reg = \h44 THEN s.fifo_cache1_dma_get
    ELSE s.fifo_cache1_ref_cnt

\* The word of channel c's context-store record a register offset names:
\* the guest placed the records at RAMIN 0x2000, 0x40 bytes each, with put,
\* get and reference count in the first three words.
RecordWord(c, reg) ==
    geforce_ramin_read32(s, U32(\h2000 + \h40 * c + (reg - \h40)))

\* C19: a write to channel c's put register invokes the ring puller for c
\* (it returns at once when c has nothing to fetch, and otherwise makes c
\* the current channel and enters the loop), and a read of channel c's
\* put, get or reference-count register returns the live register when c
\* is the current channel and the word of c's context-store record
\* otherwise.
C19_ChannelRegisters ==
    /\ obs.op \in {"put", "switch"} =>
           \/ pc = "idle" /\ fifo_idle(s, obs.chid)
           \/ pc = "pull" /\ cur = obs.chid /\ curchid(s) = obs.chid
    /\ obs.op = "read" =>
           obs.val = IF curchid(s) = obs.chid THEN LiveRegister(obs.reg)
                     ELSE RecordWord(obs.chid, obs.reg)

\* a read of the get register of a channel that was switched out returned
\* the saved cursor, which is not the live one
C19_Witness ==
    /\ obs.op = "read"
    /\ obs.reg = \h44
    /\ obs.chid # curchid(s)
    /\ obs.val # Zero
    /\ obs.val # s.fifo_cache1_dma_get
    /\ obs.val = RecordWord(obs.chid, \h44)

\* a read of the current channel's put register returned the live cursor
\* while the record holds an older one
C19_WitnessLive ==
    /\ obs.op = "read"
    /\ obs.reg = \h40
    /\ obs.chid = curchid(s)
    /\ obs.val = s.fifo_cache1_dma_put
    /\ obs.val # RecordWord(obs.chid, \h40)

-----------------------------------------------------------------------------
(* SpecSave: the ring puller of Spec on a device whose state is saved and  *)
(* loaded into a newly constructed device of the same model, as described  *)
(* by vmstate_geforce.  Video memory is not a field of the description;    *)
(* the model carries it over unchanged.                                    *)

\* The fields of GeForceState vmstate_geforce lists (those the model
\* keeps); irq, the level of the interrupt line, is part of parent_obj.
vmstate_geforce ==
    {"irq", "card_type",
     "mc_intr_en", "bus_intr", "bus_intr_en", "fifo_intr", "fifo_intr_en",
     "graph_intr", "graph_intr_en", "crtc_intr", "crtc_intr_en",
     "fifo_cache1_push1", "fifo_cache1_put", "fifo_cache1_get",
     "fifo_cache1_dma_put", "fifo_cache1_dma_get"}

\* the stream written for a device: one value per listed field
vmstate_save(st) == [f \in vmstate_geforce |-> st[f]]

\* loading a stream into a device: the listed fields are overwritten, every
\* other field keeps the value the receiving device had
vmstate_load(dst, stream) ==
    [f \in DOMAIN dst |-> IF f \in DOMAIN stream THEN stream[f] ELSE dst[f]]

\* The device state is saved and loaded into a device that has been
\* realized and reset.
SaveRestore ==
    /\ pc = "idle"
    /\ obs.op # "restore"
    /\ s' = vmstate_load([geforce_reset(s.card_type) EXCEPT !.vram = s.vram],
                         vmstate_save(s))
    /\ obs' = [op |-> "restore", before |-> s]
    /\ UNCHANGED <<pc, cur, log, swout, tick>>

NextSave == MmioWriteChannelPut \/ FifoStep \/ SaveRestore

SpecSave == Init /\ [][NextSave]_vars

\* the engine fields of a channel record
EngineFields(ch) ==
    [subr_return |-> ch.subr_return, subr_active |-> ch.subr_active,
     dma_state |-> ch.dma_state, schs |-> ch.schs]

\* C21: loading a saved device state reproduces, for each channel, the
\* subroutine return address and active flag, the pending method,
\* subchannel, run length and non-increment flag and the 8 subchannel
\* bindings, and the live get and put cursors, reference count, descriptor
\* instance and semaphore.
C21_RoundTrip ==
    obs.op = "restore" =>
        /\ \A c \in Channels :
               EngineFields(s.channels[c]) = EngineFields(obs.before.channels[c])
        /\ LiveContext(s) = LiveContext(obs.before)

\* what the description does carry: the get and put cursors, the current
\* channel id and the interrupt registers
C21_ListedFieldsKept ==
    obs.op = "restore" =>
        /\ s.fifo_cache1_dma_get = obs.before.fifo_cache1_dma_get
        /\ s.fifo_cache1_dma_put = obs.before.fifo_cache1_dma_put
        /\ curchid(s) = curchid(obs.before)
        /\ s.fifo_intr = obs.before.fifo_intr

\* a device whose channel 5 had an object bound was saved and loaded: the
\* channel record is back at its reset value
C21_LostBinding ==
    /\ obs.op = "restore"
    /\ obs.before.channels[5].schs[3].object = W(0, \h1000)
    /\ obs.before.channels[5].schs[3].engine = 1
    /\ s.channels[5] = GeForceChannel0
    /\ s.fifo_cache1_dma_instance = Zero
    /\ obs.before.fifo_cache1_dma_instance = W(0, \h0011)

-----------------------------------------------------------------------------
(* SpecRamhtAny: the handle resolver of SpecRamht, called with handle 0    *)
(* and for channel 0 as well.                                              *)

AnyHandles == {Zero, HA, HB}
AnyChids == {0, 5, 21}

\* a call of geforce_ramht_lookup
RamhtLookupAny ==
    \E h \in AnyHandles, c \in AnyChids :
        /\ obs.op = "none"
        /\ obs' = [op |-> "lookup", handle |-> h, chid |-> c,
                   res |-> geforce_ramht_lookup(s, h, c, CallerObject,
                                                CallerEngine)]
        /\ UNCHANGED <<s, pc, cur, log, swout, tick>>

NextRamhtAny == RamhtGuestWrite \/ RamhtLookupAny

SpecRamhtAny == InitRamht /\ [][NextRamhtAny]_vars

\* the slot a successful lookup stopped at
FoundSlot == Val(obs.res.at) \div 8

\* the channel id in a context word as the guest stored it: bits 24 to 28
StoredChid(context) == (context[1] \div 256) % 32

\* C22: a slot's context word is used only when the slot's handle field is
\* non-zero and the channel id in the context word is the requesting
\* channel: a lookup of handle 0 never succeeds, and a lookup that succeeds
\* stopped at a slot whose context word names the requesting channel.
C22_SlotMeaningful ==
    obs.op = "lookup" =>
        /\ obs.handle = Zero => ~obs.res.found
        /\ obs.res.found =>
               /\ SlotHandle(FoundSlot) = obs.handle
               /\ StoredChid(SlotContext(FoundSlot)) = obs.chid

\* the part of C22 that holds: a successful lookup stopped at a slot that
\* holds the handle with the requesting channel's id
C22_ChannelChecked ==
    (obs.op = "lookup" /\ obs.res.found) =>
        /\ SlotHandle(FoundSlot) = obs.handle
        /\ StoredChid(SlotContext(FoundSlot)) = obs.chid

\* handle 0 resolved for channel 5 at a slot whose handle word is not
\* written yet (or is already cleared) and whose context word names
\* channel 5
C22_HalfWrittenSlotResolves ==
    /\ obs.op = "lookup"
    /\ obs.handle = Zero
    /\ obs.chid = 5
    /\ obs.res.found
    /\ SlotHandle(FoundSlot) = Zero
    /\ obs.res.object = W(0, \h1000)
    /\ obs.res.engine = 1

\* handle 0 resolved for channel 0 at an empty slot, to object 0, engine 0
C22_EmptySlotResolves ==
    /\ obs.op = "lookup"
    /\ obs.handle = Zero
    /\ obs.chid = 0
    /\ obs.res.found
    /\ SlotHandle(FoundSlot) = Zero
    /\ SlotContext(FoundSlot) = Zero
    /\ obs.res.object = Zero
    /\ obs.res.engine = 0

\* a slot holding the handle for another channel was passed over: (HB, 5)
\* was found in slot 0 while slot 511, the first one probed, holds HB for
\* channel 21
C22_OtherChannelSkipped ==
    /\ obs.op = "lookup"
    /\ obs.handle = HB
    /\ obs.chid = 5
    /\ SlotHandle(511) = HB
    /\ StoredChid(SlotContext(511)) = 21
    /\ obs.res.found
    /\ FoundSlot = 0

-----------------------------------------------------------------------------
(* SpecRealize: construction of the device for a value of its "model"      *)
(* property, and the layout of context words and context-store records     *)
(* the constructed device uses.                                            *)

\* values of the "model" property (a uint32): the three enumerators, the
\* first value past them and the chip generation 0x40
ModelProperty == {GEFORCE_3, GEFORCE_FX_5900, GEFORCE_6800, 3, \h40}

\* geforce_realize: the switch on card_type rejects every value that is
\* not an enumerator
geforce_realize(m) ==
    IF m \in {GEFORCE_3, GEFORCE_FX_5900, GEFORCE_6800}
    THEN [ok |-> TRUE, st |-> geforce_reset(m)]
    ELSE [ok |-> FALSE, st |-> << >>]

\* context words of handle-table slots
LayoutContexts ==
    { W(\h0501, \h0100), W(\h0500, \h0030), W(\h1501, \h0077),
      W(\h0290, \h0100), W(\h02FF, \hFFFF), W(\h0A95, \h1234),
      W(\h1F80, \h0001), W(\hFFFF, \hFFFF) }

InitRealize ==
    /\ \E m \in ModelProperty :
         /\ s = geforce_realize(m).st
         /\ obs = [op |-> "realize", model |-> m, ok |-> geforce_realize(m).ok]
    /\ pc = "idle"
    /\ cur = 0
    /\ log = << >>
    /\ swout = << >>
    /\ tick = 0

\* the fields the constructed device reads from a context word
DecodeContext ==
    /\ s # << >>
    /\ \E context \in LayoutContexts :
         obs' = [op |-> "decode", context |-> context,
                 chid |-> ctx_chid(s.card_type, context),
                 object |-> ctx_object(s.card_type, context),
                 engine |-> ctx_engine(s.card_type, context)]
    /\ UNCHANGED <<s, pc, cur, log, swout, tick>>

\* where the constructed device keeps a channel's context-store record and
\* its semaphore word
RecordAddress ==
    /\ s # << >>
    /\ \E c \in Channels :
         obs' = [op |-> "record", chid |-> c,
                 base |-> Val(geforce_ramfc_address(s, c, 0)),
                 semaphore |-> Val(geforce_ramfc_address(s, c, sro(s.card_type)))]
    /\ UNCHANGED <<s, pc, cur, log, swout, tick>>

NextRealize == DecodeContext \/ RecordAddress

SpecRealize == InitRealize /\ [][NextRealize]_vars

\* the models construction accepts
AcceptedModels == {m \in ModelProperty : geforce_realize(m).ok}

\* the fields of a context word in the older layout: channel id at bits
\* 24-28, engine at bits 16-23, 16-bit object field
OlderContext(context) ==
    [chid |-> (context[1] \div 256) % 32,
     engine |-> context[1] % 256,
     object |-> U32(context[2] * 16)]

\* in the newer layout: channel id at bits 23-27, engine at bits 20-22,
\* 20-bit object field
NewerContext(context) ==
    [chid |-> (context[1] \div 128) % 32,
     engine |-> (context[1] \div 16) % 8,
     object |-> W((context[1] % 16) * 16 + context[2] \div 4096,
                  (context[2] % 4096) * 16)]

\* a device of model m decodes context words and places context-store
\* records as the layout given by the decoder, the record stride and the
\* semaphore offset
UsesLayout(m, Decoded(_), stride, semaphore) ==
    /\ \A context \in LayoutContexts :
           /\ ctx_chid(m, context) = Decoded(context).chid
           /\ ctx_engine(m, context) = Decoded(context).engine
           /\ ctx_object(m, context) = Decoded(context).object
    /\ \A c \in Channels :
           /\ Val(geforce_ramfc_address(geforce_reset(m), c, 0)) = c * stride
           /\ sro(m) = semaphore

\* C23: among the device models construction accepts, at least one uses
\* the older layout (stride 0x40, semaphore at 0x2C) and at least one uses
\* the newer layout (stride 0x80, semaphore at 0x30).
C23_BothLayouts ==
    (obs.op = "realize" /\ obs.ok) =>
        /\ \E m \in AcceptedModels : UsesLayout(m, OlderContext, \h40, \h2C)
        /\ \E m \in AcceptedModels : UsesLayout(m, NewerContext, \h80, \h30)

\* what the code does: every device that is constructed decodes context
\* words and places records by the older layout
C23_OlderLayoutOnly ==
    /\ obs.op = "decode" =>
           /\ obs.chid = OlderContext(obs.context).chid
           /\ obs.engine = OlderContext(obs.context).engine
           /\ obs.object = OlderContext(obs.context).object
    /\ obs.op = "record" =>
           /\ obs.base = obs.chid * \h40
           /\ obs.semaphore = obs.base + \h2C

\* a GeForce 6800 decoded a context word whose fields differ between the
\* two layouts, by the older one
C23_Geforce6800Older ==
    /\ s # << >>
    /\ s.card_type = GEFORCE_6800
    /\ obs.op = "decode"
    /\ obs.context = W(\h0290, \h0100)
    /\ OlderContext(obs.context) # NewerContext(obs.context)
    /\ obs.chid = 2
    /\ obs.engine = \h90

\* the value that selects the newer layout is not accepted
C23_NewerRejected ==
    /\ obs.op = "realize"
    /\ obs.model = \h40
    /\ ~obs.ok
    /\ \h40 \notin AcceptedModels
    /\ UsesLayout(\h40, NewerContext, \h80, \h30)

-----------------------------------------------------------------------------
(* SpecBind: binds of the raster-op object (HA), the memory-to-memory      *)
(* object (HM) and the software object (HS) on subchannel 3 of channel 5,  *)
(* between notifier overrides.  Handles HN and HW are in no slot of the    *)
(* table, so method 0x60 stores them as they are: HN is not 16-byte        *)
(* aligned, HW is wider than the notifier field of an object record.       *)

HW == W(\h0012, \h3450)

GraphicsObjects == {RopObject, M2mfObject}

BindInputs ==
    { [subc |-> 3, mthd |-> 0, param |-> HA],
      [subc |-> 3, mthd |-> 0, param |-> HM],
      [subc |-> 3, mthd |-> 0, param |-> HS],
      [subc |-> 3, mthd |-> \h060, param |-> HB],
      [subc |-> 3, mthd |-> \h060, param |-> HN],
      [subc |-> 3, mthd |-> \h060, param |-> HW] }

MaxBind == 3

\* The subchannel has nothing bound or the memory-to-memory object, bound
\* by an earlier bind.  swout records, per graphics object, the notifier
\* reference the subchannel had when the object was last bound away from.
InitBind ==
    /\ \E ct \in Models :
         \/ s = ExecImage(ct)
         \/ s = geforce_execute_command(ExecImage(ct), ExecChid, 3, 0, HM,
                                        NowStamp).st
    /\ pc = "idle"
    /\ cur = 0
    /\ log = << >>
    /\ swout = [o \in GraphicsObjects |-> << >>]
    /\ obs = NoObs
    /\ tick = 0

\* one call of geforce_execute_command
BindCommand ==
    /\ Len(log) < MaxBind
    /\ log' = Append(log, "exec")
    /\ \E in \in BindInputs :
       \E r \in {geforce_execute_command(s, ExecChid, in.subc, in.mthd,
                                         in.param, NowStamp)} :
         LET old == s.channels[ExecChid].schs[in.subc]
         IN  /\ s' = r.st
             /\ obs' = [op |-> "exec", subc |-> in.subc, mthd |-> in.mthd,
                        param |-> in.param, before |-> s]
             /\ swout' = IF in.mthd = 0 /\ old.engine = 1
                         THEN [swout EXCEPT ![old.object] = old.notifier]
                         ELSE swout
    /\ UNCHANGED <<pc, cur, tick>>

NextBind == BindCommand

SpecBind == InitBind /\ [][NextBind]_vars

\* the notifier reference held in an object's record: the upper half of
\* its second word, in units of 16 bytes
NotifierField(st, object) ==
    U32(geforce_ramin_read32(st, Add32(object, U32(4)))[1] * 16)

\* a notifier reference the field can hold: 16-byte aligned, below 2^20
FitsField(n) == n[2] % 16 = 0 /\ n[1] < 16

\* C24: when a subchannel bound to graphics-engine object A has notifier
\* reference n, 16-byte aligned and within the field width, binding another
\* graphics-engine object B on it writes n into A's record and loads the
\* subchannel's notifier from B's record, and a later re-bind of A sets the
\* subchannel's notifier to n again.
C24_NotifierSaveRestore ==
    (obs.op = "exec" /\ obs.mthd = 0) =>
        /\ ( /\ SchBefore.engine = 1
             /\ SchAfter.engine = 1
             /\ SchAfter.object # SchBefore.object
             /\ FitsField(SchBefore.notifier) ) =>
               /\ NotifierField(s, SchBefore.object) = SchBefore.notifier
               /\ SchAfter.notifier = NotifierField(obs.before, SchAfter.object)
        /\ ( /\ SchAfter.engine = 1
             /\ SchAfter.object \in GraphicsObjects
             /\ swout[SchAfter.object] # << >>
             /\ FitsField(swout[SchAfter.object]) ) =>
               SchAfter.notifier = swout[SchAfter.object]

\* the memory-to-memory object was bound with notifier 0x300 (set by
\* method 0x60), the raster-op object was bound in its place, loading
\* notifier 0x200 from its record, and the memory-to-memory object has just
\* been bound again: the subchannel's notifier is 0x300 and the raster-op
\* object's record holds 0x200
C24_Witness ==
    /\ obs.op = "exec"
    /\ obs.mthd = 0
    /\ obs.param = HM
    /\ SchBefore.object = RopObject
    /\ SchBefore.engine = 1
    /\ SchBefore.notifier = Notifier
    /\ swout[M2mfObject] = IdleNotifier
    /\ SchAfter.object = M2mfObject
    /\ SchAfter.notifier = IdleNotifier
    /\ NotifierField(s, RopObject) = Notifier
    /\ NotifierField(obs.before, M2mfObject) = IdleNotifier

\* outside that precondition: a notifier reference that is not
\* 16-byte aligned or is wider than the field does not come back
C24_WitnessUnfit ==
    /\ obs.op = "exec"
    /\ obs.mthd = 0
    /\ SchAfter.engine = 1
    /\ swout[SchAfter.object] # << >>
    /\ ~FitsField(swout[SchAfter.object])
    /\ SchAfter.notifier # swout[SchAfter.object]

-----------------------------------------------------------------------------
(* SpecFlow: the ring puller on ring programs with subroutines.  The set-  *)
(* up is that of Spec (RaminImage); the rings hold FlowProgram.  Channel   *)
(* 5 binds the raster-op object, runs a three-parameter run, calls the     *)
(* subroutine at 0x80 (a non-increment run, a call, a jump, an old jump    *)
(* and a word with no valid encoding) and, back from it, jumps to 0xB0.    *)
(* Channel 0 calls a subroutine at 0x20 and runs a two-parameter run.      *)
(* The guest makes a ring drain inside runs and inside subroutines by the  *)
(* put values it writes.                                                   *)

FlowProgram(c) ==
    IF c = 0
    THEN << <<\h00, W(\h0004, \h0050)>>,   \* header: 1 x method 0x14, subc 0
            <<\h04, W(0, \h0077)>>,
            <<\h08, W(0, \h0022)>>,        \* call 0x20
            <<\h0C, W(\h0008, \h2040)>>,   \* header: 2 x method 0x10, subc 1
            <<\h10, W(0, \h0001)>>,
            <<\h14, W(0, \h0002)>>,
            <<\h20, W(\h0004, \h0050)>>,   \* header: 1 x method 0x14, subc 0
            <<\h24, W(0, \h0088)>>,
            <<\h28, W(\h0002, 0)>> >>      \* return
    ELSE << <<\h00, W(\h0004, \h6000)>>,   \* header: 1 x method 0, subc 3
            <<\h04, HA>>,
            <<\h08, W(\h000C, \h6300)>>,   \* header: 3 x method 0xc0, subc 3
            <<\h0C, W(0, \h000C)>>,
            <<\h10, W(0, \h0092)>>,        \*   parameter shaped like a call
            <<\h14, W(\h0002, 0)>>,        \*   parameter shaped like a return
            <<\h18, W(0, \h0082)>>,        \* call 0x80
            <<\h1C, W(0, \h00B1)>>,        \* jump 0xB0
            <<\h80, W(\h4008, \h6300)>>,   \* header: 2 x 0xc0, non-increment
            <<\h84, W(0, \h0055)>>,
            <<\h88, W(\h0002, 0)>>,        \*   parameter shaped like a return
            <<\h8C, W(0, \h0092)>>,        \* call 0x90, subroutine active
            <<\h90, W(0, \h0099)>>,        \* jump 0x98
            <<\h98, W(\h2000, \h00A0)>>,   \* old jump 0xA0
            <<\hA0, W(0, \h0003)>>,        \* no valid encoding
            <<\hA4, W(\h0002, 0)>>,        \* return
            <<\hB0, W(\h0001, 0)>>,        \* no valid encoding
            <<\hB4, W(\h8000, 0)>>,        \* no valid encoding
            <<\hB8, W(\h0002, 0)>>,        \* return, no subroutine active
            <<\hBC, W(\h0004, \h0050)>>,   \* header: 1 x method 0x14, subc 0
            <<\hC0, W(0, \h0099)>> >>

\* the get cursor's values, in the order the puller takes them
FlowPath(c) ==
    IF c = 0
    THEN <<\h00, \h04, \h08, \h20, \h24, \h28, \h0C, \h10, \h14, \h18>>
    ELSE <<\h00, \h04, \h08, \h0C, \h10, \h14, \h18, \h80, \h84, \h88, \h8C,
           \h90, \h98, \hA0, \hA4, \h1C, \hB0, \hB4, \hB8, \hBC, \hC0, \hC4>>

\* put values the guest writes
FlowPutValues(c) ==
    IF c = 0 THEN {\h24, \h10, \h18}
    ELSE {\h10, \h14, \h88, \h98, \hA4, \hB4, \hC4}

\* the position of a cursor value on the path
PathIndex(c, v) == CHOOSE i \in DOMAIN FlowPath(c) : FlowPath(c)[i] = v

FlowWords(ct) ==
    {<<Val(Xor32(RaminImage[i][1], ramin_flip(ct))), RaminImage[i][2]>> :
        i \in DOMAIN RaminImage}
    \cup UNION {{<<RingBase(c) + FlowProgram(c)[i][1], FlowProgram(c)[i][2]>> :
                    i \in DOMAIN FlowProgram(c)} : c \in GuestChannels}

FlowMemory(ct) ==
    LET cells == {<<w[1] + i, ByteOf(w[2], i)>> : w \in FlowWords(ct), i \in 0 .. 3}
        nz == {c \in cells : c[2] # 0}
    IN  [a \in {c[1] : c \in nz} |-> (CHOOSE c \in nz : c[1] = a)[2]]

\* the device after the guest's set-up
FlowImage(ct) == [FifoImage(ct) EXCEPT !.vram = FlowMemory(ct)]

InitFlow ==
    /\ \E ct \in Models : s = FlowImage(ct)
    /\ pc = "idle"
    /\ cur = 0
    /\ log = [c \in GuestChannels |-> << >>]
    /\ swout = [c \in Channels |-> << >>]
    /\ obs = NoObs
    /\ tick = 0

\* A guest write to a channel's put register: geforce_mmio_write stores the
\* value and calls geforce_fifo_process.  The guest writes the cursor
\* value the put register already holds or one further along the program.
\* stored is the device after the store, when the puller is invoked;
\* swout records, for a channel that is switched out, whether its
\* subroutine was active and its pending method state.
FlowWritePut ==
    /\ pc = "idle"
    /\ \E addr \in PutAddrs :
         \E v \in FlowPutValues(channel_of(addr)) :
         \E st1 \in {mmio_write_channel_put(s, channel_of(addr), U32(v))} :
           LET chid == channel_of(addr)
               old == curchid(s)
               idle == fifo_idle(st1, chid)
           IN  /\ InChannelWindow(addr)
               /\ channel_offset(addr) = \h40
               /\ PathIndex(chid, v) >=
                      PathIndex(chid, Val(channel_put(s, chid)))
               /\ s' = IF idle THEN st1 ELSE fifo_switch(st1, chid)
               /\ pc' = IF idle THEN "idle" ELSE "pull"
               /\ cur' = IF idle THEN cur ELSE chid
               /\ obs' = [op |-> IF idle THEN "idle"
                                 ELSE IF old # chid THEN "switch" ELSE "put",
                          chid |-> chid, val |-> U32(v), stored |-> st1]
               /\ swout' = IF ~idle /\ old # chid
                           THEN [swout EXCEPT ![old] =
                                    [subr |-> s.channels[old].subr_active,
                                     dma_state |-> s.channels[old].dma_state]]
                           ELSE swout
    /\ UNCHANGED <<log, tick>>

NextFlow == FlowWritePut \/ FifoStep

SpecFlow == InitFlow /\ [][NextFlow]_vars

\* the loop has just decoded (not dispatched) a word of the given kind
Decoded(kind) ==
    /\ obs.op = "step"
    /\ ~obs.exec
    /\ word_kind(obs.word) = kind

\* the ring offset the word of the last pass was fetched at
FetchedAt == obs.before.fifo_cache1_dma_get

\* the ring offset of the call each channel's program takes
CallSite(c) == IF c = 0 THEN \h08 ELSE \h18

\* C25: a call word fetched at ring offset a while no subroutine is active
\* saves a + 4 as the return address, sets the subroutine-active flag and
\* sets the get cursor to word & 0xfffffffc; the return address stays a + 4
\* while the subroutine is active, whatever is decoded or dispatched and
\* whichever channel is processed; and the next return word decoded on the
\* channel sets the get cursor to a + 4 and clears the flag.
C25_CallReturn ==
    /\ ( /\ Decoded("call")
         /\ ~obs.before.channels[obs.chid].subr_active ) =>
           /\ FetchedAt = U32(CallSite(obs.chid))
           /\ s.channels[obs.chid].subr_return = Add32(FetchedAt, U32(4))
           /\ s.channels[obs.chid].subr_active
           /\ s.fifo_cache1_dma_get = And32(obs.word, W(\hFFFF, \hFFFC))
    /\ \A c \in Channels :
           s.channels[c].subr_active =>
               s.channels[c].subr_return = U32(CallSite(c) + 4)
    /\ ( /\ Decoded("return")
         /\ obs.before.channels[obs.chid].subr_active ) =>
           /\ s.fifo_cache1_dma_get = U32(CallSite(obs.chid) + 4)
           /\ ~s.channels[obs.chid].subr_active

\* channel 5 has returned to 0x1C from the subroutine it entered at 0x18;
\* it was switched out inside the subroutine, and channel 0 is inside its
\* own subroutine
C25_Witness ==
    /\ Decoded("return")
    /\ obs.chid = 5
    /\ obs.before.channels[5].subr_active
    /\ FetchedAt = W(0, \h00A4)
    /\ s.fifo_cache1_dma_get = W(0, \h001C)
    /\ ~s.channels[5].subr_active
    /\ swout[5] # << >>
    /\ swout[5].subr
    /\ s.channels[0].subr_active
    /\ s.channels[0].subr_return = W(0, \h000C)
    /\ s.channels[5].rop = 0

\* the call at 0x18 of channel 5's ring has just been taken
C25_WitnessCall ==
    /\ Decoded("call")
    /\ obs.chid = 5
    /\ ~obs.before.channels[5].subr_active
    /\ FetchedAt = W(0, \h0018)
    /\ s.fifo_cache1_dma_get = W(0, \h0080)
    /\ s.channels[5].subr_return = W(0, \h001C)

\* the loop has just decoded a word, with no parameter run pending
DecodedWord ==
    /\ obs.op = "step"
    /\ ~obs.exec
    /\ obs.before.channels[obs.chid].dma_state.mcnt = 0

\* (word & 0xe0000003) == 0x20000000
OldJumpWord(word) == word[1] \div 8192 = 1 /\ word[2] % 4 = 0

\* (word & 3) == 1
JumpWord(word) == word[2] % 4 = 1

\* the engine fields of every channel are as they were before the pass
EngineStateKept ==
    \A c \in Channels :
        EngineFields(s.channels[c]) = EngineFields(obs.before.channels[c])

\* C26: with no parameter run pending, a word with (word & 0xe0000003) ==
\* 0x20000000 sets the get cursor to word & 0x1fffffff and a word with
\* (word & 3) == 1 sets it to word & 0xfffffffc; neither changes the
\* subroutine state, the pending method state or a subchannel binding.
C26_Jumps ==
    /\ (DecodedWord /\ OldJumpWord(obs.word)) =>
           /\ s.fifo_cache1_dma_get = W(obs.word[1] % 8192, obs.word[2])
           /\ EngineStateKept
    /\ (DecodedWord /\ JumpWord(obs.word)) =>
           /\ s.fifo_cache1_dma_get = W(obs.word[1], obs.word[2] - 1)
           /\ EngineStateKept

\* the old jump at 0x98 of channel 5's ring has been taken inside the
\* subroutine, with an object bound to subchannel 3
C26_Witness ==
    /\ DecodedWord
    /\ obs.chid = 5
    /\ obs.word = W(\h2000, \h00A0)
    /\ FetchedAt = W(0, \h0098)
    /\ s.fifo_cache1_dma_get = W(0, \h00A0)
    /\ s.channels[5].subr_active
    /\ s.channels[5].subr_return = W(0, \h001C)
    /\ s.channels[5].schs[3].object = RopObject

\* the jump at 0x1C of channel 5's ring has been taken
C26_WitnessJump ==
    /\ DecodedWord
    /\ obs.chid = 5
    /\ obs.word = W(0, \h00B1)
    /\ FetchedAt = W(0, \h001C)
    /\ s.fifo_cache1_dma_get = W(0, \h00B0)

\* word == 0x00020000
ReturnWord(word) == word = W(\h0002, 0)

\* (word & 0xa0030003) == 0
HeaderWord(word) ==
    /\ word[1] \div 32768 = 0
    /\ (word[1] \div 8192) % 2 = 0
    /\ word[1] % 4 = 0
    /\ word[2] % 4 = 0

\* a word that is no old jump, jump, call, return or method header
Malformed(word) ==
    /\ ~OldJumpWord(word)
    /\ word[2] % 4 \notin {1, 2}
    /\ ~ReturnWord(word)
    /\ ~HeaderWord(word)

\* C27: with no parameter run pending, a word that matches none of old
\* jump, jump, call, return and method header changes nothing but the get
\* cursor, which is 4 further, and the loop goes on to the next word.
C27_MalformedSkipped ==
    (DecodedWord /\ Malformed(obs.word)) =>
        /\ s = [obs.before EXCEPT !.fifo_cache1_dma_get = Add32(@, U32(4))]
        /\ pc = "pull"

\* the word 0x00010000 at 0xB0 of channel 5's ring has been skipped
C27_Witness ==
    /\ DecodedWord
    /\ Malformed(obs.word)
    /\ obs.chid = 5
    /\ obs.word = W(\h0001, 0)
    /\ FetchedAt = W(0, \h00B0)
    /\ s.fifo_cache1_dma_get = W(0, \h00B4)
    /\ s.channels[5].dma_state = obs.before.channels[5].dma_state
    /\ s.channels[5].dma_state.mthd = \h0c0

\* the word 0x80000000 at 0xB4 of channel 5's ring has been skipped
C27_WitnessOthers ==
    /\ DecodedWord
    /\ Malformed(obs.word)
    /\ obs.word = W(\h8000, 0)
    /\ log[5] # << >>
    /\ s.fifo_cache1_dma_get = W(0, \h00B8)

\* the ring puller has just been invoked by a write to a put register
PullerInvoked == obs.op \in {"idle", "put", "switch"}

\* Channel c's get cursor equals its put cursor in device st: the live
\* registers when c is the current channel, otherwise the first two words
\* of its context-store record (the guest placed the records at RAMIN
\* 0x2000, 0x40 bytes each).
GetEqualsPut(st, c) ==
    IF st.fifo_cache1_push1[2] % 32 = c
    THEN st.fifo_cache1_dma_get = st.fifo_cache1_dma_put
    ELSE geforce_ramin_read32(st, U32(\h2000 + \h40 * c))
             = geforce_ramin_read32(st, U32(\h2000 + \h40 * c + 4))

\* C28: invoking the ring puller for a channel whose get cursor equals its
\* put cursor changes nothing: the device is as it was when the puller was
\* invoked (no context switch, no write to a context-store record, no
\* fetch, no dispatch) and the loop is not entered.
C28_IdleNoOp ==
    (PullerInvoked /\ GetEqualsPut(obs.stored, obs.chid)) =>
        /\ s = obs.stored
        /\ pc = "idle"

\* the puller was invoked for channel 0, which is switched out with get
\* and put both 0x24 in its record, while channel 5 is current
C28_Witness ==
    /\ PullerInvoked
    /\ obs.chid = 0
    /\ obs.val = W(0, \h0024)
    /\ GetEqualsPut(obs.stored, 0)
    /\ curchid(s) = 5
    /\ geforce_ramin_read32(s, W(0, \h2004)) = W(0, \h0024)
    /\ s.fifo_cache1_dma_get = W(0, \h0088)

\* the puller was invoked for the current channel with the ring drained
C28_WitnessCurrent ==
    /\ PullerInvoked
    /\ obs.chid = 5
    /\ curchid(s) = 5
    /\ GetEqualsPut(obs.stored, 5)
    /\ s.fifo_cache1_dma_put = W(0, \h00C4)

\* an invocation for a channel with words to fetch does enter the loop
C28_WitnessBusy ==
    /\ obs.op = "switch"
    /\ ~GetEqualsPut(obs.stored, obs.chid)
    /\ s # obs.stored
    /\ pc = "pull"

\* C29: a pending parameter run survives interruption.  While a channel
\* is switched out its pending method, subchannel, run length and
\* non-increment flag stay as they were when it was switched out; and for
\* every header with run length n, subchannel s and method m of a
\* channel's ring, the n ring words after it are the words dispatched
\* next for that channel, on subchannel s, the k-th to method m + k - 1 (to
\* m when non-increment is set), wherever in the run the ring drained and
\* whatever was processed for other channels in between.
C29_RunSurvives ==
    /\ \A c \in GuestChannels :
           (c # curchid(s) /\ swout[c] # << >>) =>
               s.channels[c].dma_state = swout[c].dma_state
    /\ \A c \in GuestChannels :
        \A i \in 1 .. Len(log[c]) :
            LET L == log[c]
                h == LastHeader(L, i)
                k == i - h
            IN  IF L[i].kind = "exec"
                THEN /\ h > 0
                     /\ k <= L[h].n
                     /\ L[i].subc = L[h].subc
                     /\ L[i].mthd = IF L[h].ni THEN L[h].mthd
                                    ELSE L[h].mthd + k - 1
                     /\ L[i].param = RingWord(c, L[h].at + 4 * k)
                ELSE h > 0 => k - 1 = L[h].n

\* Channel 5's ring drained after the first of the three parameters of
\* the run at 0x08, channel 0 was processed, and channel 5 has now been
\* given the third parameter: the two remaining words went to methods
\* 0xc1 and 0xc2 on subchannel 3.
C29_Witness ==
    LET L == log[5]
    IN  /\ obs.op = "step"
        /\ obs.exec
        /\ obs.chid = 5
        /\ swout[5] # << >>
        /\ swout[5].dma_state = [mthd |-> \h0c1, subc |-> 3, mcnt |-> 2,
                                 ni |-> FALSE]
        /\ log[0] # << >>
        /\ Len(L) = 6
        /\ L[3] = [kind |-> "hdr", n |-> 3, subc |-> 3, mthd |-> \h0c0,
                   ni |-> FALSE, at |-> \h08]
        /\ L[4] = [kind |-> "exec", subc |-> 3, mthd |-> \h0c0,
                   param |-> W(0, \h000C)]
        /\ L[5] = [kind |-> "exec", subc |-> 3, mthd |-> \h0c1,
                   param |-> W(0, \h0092)]
        /\ L[6] = [kind |-> "exec", subc |-> 3, mthd |-> \h0c2,
                   param |-> W(\h0002, 0)]
        /\ s.channels[5].dma_state.mcnt = 0
        /\ ~s.channels[5].subr_active

\* channel 0 is switched out with the parameter of the run at 0x20 still
\* to come
C29_WitnessPending ==
    /\ curchid(s) = 5
    /\ swout[0] # << >>
    /\ swout[0].dma_state.mcnt = 1
    /\ s.channels[0].dma_state = [mthd |-> \h014, subc |-> 0, mcnt |-> 1,
                                  ni |-> FALSE]

-----------------------------------------------------------------------------
(* Channel isolation, over the dispatches of SpecSoft and SpecExec and the *)
(* puller invocations of SpecFlow.                                         *)

\* the records of all channels but c are the same in the two devices
OthersKept(before, after, c) ==
    \A d \in Channels \ {c} : after.channels[d] = before.channels[d]

\* C30: a ring puller invocation or a method dispatch for channel c leaves
\* the channel record of every other channel unchanged.
C30_ChannelIsolation ==
    /\ obs.op = "exec" => OthersKept(obs.before, s, ExecChid)
    /\ obs.op = "step" => OthersKept(obs.before, s, obs.chid)
    /\ PullerInvoked => OthersKept(obs.stored, s, obs.chid)

\* what the code keeps: a dispatch that does not index past the software-
\* method queue, and every pass and invocation of the ring puller, leave
\* the other channels' records unchanged
C30_IsolationInRange ==
    /\ (obs.op = "exec" /\ ~obs.overrun) => OthersKept(obs.before, s, ExecChid)
    /\ obs.op = "step" => OthersKept(obs.before, s, obs.chid)
    /\ PullerInvoked => OthersKept(obs.stored, s, obs.chid)

\* a software method dispatched for channel 5 with the queue's put index
\* at 0x400 has stored its parameter in channel 0's record
C30_ForeignRecordWritten ==
    /\ obs.op = "exec"
    /\ obs.overrun
    /\ obs.before.fifo_cache1_put = W(0, \h0400)
    /\ obs.mthd = \h100
    /\ obs.before.channels[0].subr_return = Zero
    /\ s.channels[0].subr_return = W(0, \h0077)

\* a pass of the puller for channel 5 changed channel 5's record while
\* channel 0 was inside its subroutine with a parameter pending
C30_WitnessPuller ==
    /\ obs.op = "step"
    /\ obs.chid = 5
    /\ s.channels[5] # obs.before.channels[5]
    /\ s.channels[0].subr_active
    /\ s.channels[0].dma_state.mcnt = 1
    /\ s.channels[0] = obs.before.channels[0]

-----------------------------------------------------------------------------
(* SpecIfc and SpecClass: methods dispatched to subchannels bound to the   *)
(* 2D classes.  The guest has stored in RAMIN, next to the objects of the  *)
(* dispatch image, an image-from-host object (handle HI), a rectangle      *)
(* object (HG), a copy object (HC) and a surface object (HU), and has      *)
(* bound them and the memory-to-memory object to subchannels 0 to 4 of     *)
(* channel 5.                                                              *)

HI == W(0, \h00A4)
HG == W(0, \h00A5)
HC == W(0, \h00A6)
HU == W(0, \h00A7)

ClassRamin ==
    << <<W(0, \h4020), HI>>,                \* RAMHT slot 4
       <<W(0, \h4024), W(\h0501, \h0120)>>, \*   channel 5, engine 1, 0x1200
       <<W(0, \h4028), HG>>,                \* RAMHT slot 5
       <<W(0, \h402C), W(\h0501, \h0130)>>, \*   channel 5, engine 1, 0x1300
       <<W(0, \h4030), HC>>,                \* RAMHT slot 6
       <<W(0, \h4034), W(\h0501, \h0140)>>, \*   channel 5, engine 1, 0x1400
       <<W(0, \h4038), HU>>,                \* RAMHT slot 7
       <<W(0, \h403C), W(\h0501, \h0150)>>, \*   channel 5, engine 1, 0x1500
       <<W(0, \h1200), W(0, \h0061)>>,      \* image-from-host: class 0x61
       <<W(0, \h1300), W(0, \h004A)>>,      \* rectangle: class 0x4a
       <<W(0, \h1400), W(0, \h005F)>>,      \* copy: class 0x5f
       <<W(0, \h1500), W(0, \h0062)>> >>    \* surface: class 0x62

\* the subchannels the classes are bound to
ClassSubc == [ifc |-> 0, gdi |-> 1, blit |-> 2, m2mf |-> 3, surf2d |-> 4]

ClassMemory(ct) ==
    LET words == {<<Val(Xor32(ClassRamin[i][1], ramin_flip(ct))),
                    ClassRamin[i][2]>> : i \in DOMAIN ClassRamin}
        cells == {<<w[1] + i, ByteOf(w[2], i)>> : w \in words, i \in 0 .. 3}
        nz == {c \in cells : c[2] # 0}
    IN  [a \in {c[1] : c \in nz} |-> (CHOOSE c \in nz : c[1] = a)[2]]
        @@ ExecMemory(ct)

\* the device after the guest's set-up and the five binds
ClassImage(ct) ==
    LET bind(st, subc, handle) ==
            geforce_execute_command(st, ExecChid, subc, 0, handle, NowStamp).st
        img == [ExecImage(ct)
                EXCEPT !.vram = ClassMemory(ct),
                       !.channels[ExecChid] = @ @@ Class2dFields]
    IN  bind(bind(bind(bind(bind(img, ClassSubc.ifc, HI), ClassSubc.gdi, HG),
                       ClassSubc.blit, HC), ClassSubc.m2mf, HM), ClassSubc.surf2d, HU)

\* image sizes (height in the upper half): 3 by 1; 0x8101 by 0x7f01, whose
\* pixel count is 2^30 + 1; 0x8000 by 0x8000, whose pixel count is 2^30
IfcSizes == { W(1, 3), W(\h7F01, \h8101), W(\h8000, \h8000) }

\* the methods SpecIfc dispatches: the surface format Y8, the image formats
\* R5G6B5 and A8R8G8B8, the size method and a data word
IfcInputs ==
    { [subc |-> ClassSubc.surf2d, mthd |-> \h0c0, param |-> U32(1)],
      [subc |-> ClassSubc.ifc, mthd |-> \h0c0, param |-> U32(1)],
      [subc |-> ClassSubc.ifc, mthd |-> \h0c0, param |-> U32(4)],
      [subc |-> ClassSubc.ifc, mthd |-> \h100, param |-> W(0, \h0077)] }
    \cup { [subc |-> ClassSubc.ifc, mthd |-> \h0c3, param |-> p] : p \in IfcSizes }

MaxIfc == 6

\* what the store of a data word that has no allocated word to go to can
\* do: land outside the buffer, or stop the process
IfcUbOutcomes == {"stray", "crash"}

\* ceil(width * height * bytes / 4) as a natural number (it is below 2^32),
\* bytes in {0, 1, 2, 4}
ExpectedWords(shw, bytes) ==
    LET pixels == Mul16(shw[2], shw[1])
    IN  CASE bytes = 0 -> Zero
          [] bytes = 1 -> Shr32(Add32(pixels, U32(3)), 2)
          [] bytes = 2 -> Shr32(Add32(pixels, U32(1)), 1)
          [] bytes = 4 -> pixels

\* swout: since the last size method in buffered mode, the number of data
\* words dispatched, the number of times the operation was started and the
\* bytes per pixel and the word count of the announced size
IfcGhost0 ==
    [sized |-> FALSE, bytes |-> 0, consumed |-> 0, fired |-> 0,
     expected |-> Zero]

InitIfc ==
    /\ s = ClassImage(GEFORCE_3)
    /\ pc = "idle"
    /\ cur = 0
    /\ log = << >>
    /\ swout = IfcGhost0
    /\ obs = NoObs
    /\ tick = 0

\* a data word of the image-from-host class in buffered mode
IfcDataWord(st, in) ==
    /\ in.subc = ClassSubc.ifc
    /\ in.mthd \in \h100 .. \h7ff
    /\ ~ st.channels[ExecChid].ifc_upload

\* One call of geforce_execute_command for a subchannel bound to a 2D
\* class.  The store of a data word that has no allocated word to go to is
\* undefined behaviour: it lands outside the buffer or the process stops.
class_step(inputs) ==
    \E in \in inputs :
    \E r \in {geforce_execute_command(s, ExecChid, in.subc, in.mthd,
                                      in.param, NowStamp)} :
      LET ch == s.channels[ExecChid]
          ch1 == r.st.channels[ExecChid]
          outside == IfcDataWord(s, in) /\ ifc_store_outside(ch)
          sizing == in.subc = ClassSubc.ifc /\ in.mthd = \h0c3 /\ ~ ch1.ifc_upload
      IN  \E u \in IF outside THEN IfcUbOutcomes ELSE {"defined"} :
            /\ obs' = [op |-> IF u = "crash" THEN "crash" ELSE "exec",
                       subc |-> in.subc, mthd |-> in.mthd,
                       param |-> in.param, outside |-> outside,
                       before |-> s]
            /\ s' = IF u = "crash" THEN s ELSE r.st
            /\ swout' =
                 IF u = "crash" THEN swout
                 ELSE IF sizing
                 THEN [sized |-> TRUE, bytes |-> ch.ifc_color_bytes,
                       consumed |-> 0, fired |-> 0,
                       expected |-> ExpectedWords(in.param, ch.ifc_color_bytes)]
                 ELSE IF IfcDataWord(s, in)
                 THEN [swout EXCEPT !.consumed = @ + 1,
                                    !.fired = @ + Len(ch1.gfx) - Len(ch.gfx)]
                 ELSE swout

IfcCommand ==
    /\ obs.op # "crash"
    /\ Len(log) < MaxIfc
    /\ log' = Append(log, "exec")
    /\ class_step(IfcInputs)
    /\ UNCHANGED <<pc, cur, tick>>

NextIfc == IfcCommand

SpecIfc == InitIfc /\ [][NextIfc]_vars

\* the last dispatch was a data word of the image-from-host class, in
\* buffered mode, after a size method and an image format of 1, 2 or 4
\* bytes per pixel
IfcDataAfterSize ==
    /\ obs.op = "exec"
    /\ IfcDataWord(obs.before, obs)
    /\ swout.sized
    /\ swout.bytes \in {1, 2, 4}

\* the number of graphics operations the last dispatch started
StartedByLast ==
    Len(s.channels[ExecChid].gfx) - Len(obs.before.channels[ExecChid].gfx)

\* C31: after the size method of the image-from-host class announces width
\* w, height h with b bytes per pixel (buffered mode), the graphics
\* operation is started exactly once, on the data word that brings the
\* number of consumed data words to ceil(w*h*b / 4), for every 16-bit w and
\* h, including sizes where w*h*b exceeds 32 bits.
C31_TriggerCount ==
    IfcDataAfterSize =>
        /\ StartedByLast = IF U32(swout.consumed) = swout.expected THEN 1 ELSE 0
        /\ swout.fired = IF Lt32(U32(swout.consumed), swout.expected) THEN 0 ELSE 1

\* what the code keeps: when w*h*b is below 2^32 and the buffer has not
\* been released, the operation is started on the data word that completes
\* the announced count, and on no earlier one
C31_TriggerCountIn32Bits ==
    (/\ IfcDataAfterSize
     /\ ~ obs.outside
     /\ obs.before.channels[ExecChid].ifc_words.len = swout.expected)
        => StartedByLast = IF U32(swout.consumed) = swout.expected THEN 1 ELSE 0

\* a 3 by 1 image of 2 bytes per pixel (6 bytes) was completed by its
\* second data word
C31_RoundedUp ==
    /\ IfcDataAfterSize
    /\ s.channels[ExecChid].ifc_shw = W(1, 3)
    /\ s.channels[ExecChid].ifc_color_bytes = 2
    /\ swout.consumed = 2
    /\ swout.expected = U32(2)
    /\ StartedByLast = 1

\* the first data word of a 0x8101 by 0x7f01 image of 4 bytes per pixel,
\* 2^30 + 1 words, started the operation
C31_Overflowed ==
    /\ IfcDataAfterSize
    /\ s.channels[ExecChid].ifc_shw = W(\h7F01, \h8101)
    /\ s.channels[ExecChid].ifc_color_bytes = 4
    /\ swout.expected = W(\h4000, 1)
    /\ swout.consumed = 1
    /\ StartedByLast = 1

-----------------------------------------------------------------------------
(* SpecClass: methods of the rectangle, copy and memory-to-memory classes. *)

ClassInputs ==
    { [subc |-> ClassSubc.gdi, mthd |-> \h0ff, param |-> W(0, \h00FF)],
      [subc |-> ClassSubc.gdi, mthd |-> \h100, param |-> W(1, 2)],
      [subc |-> ClassSubc.gdi, mthd |-> \h101, param |-> W(3, 4)],
      [subc |-> ClassSubc.gdi, mthd |-> \h180, param |-> W(1, 2)],
      [subc |-> ClassSubc.gdi, mthd |-> \h181, param |-> W(5, 6)],
      [subc |-> ClassSubc.blit, mthd |-> \h0c1, param |-> W(1, 2)],
      [subc |-> ClassSubc.blit, mthd |-> \h0c2, param |-> W(3, 4)],
      [subc |-> ClassSubc.m2mf, mthd |-> \h0c8, param |-> U32(2)],
      [subc |-> ClassSubc.m2mf, mthd |-> \h0ca, param |-> Zero] }

MaxClass == 3

ClassCommand ==
    /\ Len(log) < MaxClass
    /\ log' = Append(log, "exec")
    /\ class_step(ClassInputs)
    /\ UNCHANGED <<pc, cur, tick>>

NextClass == ClassCommand

SpecClass == InitIfc /\ [][NextClass]_vars

\* the odd methods of the rectangle class's list of plain rectangles, which
\* carry a width and height, and of its list of clipped rectangles, which
\* carry a second corner
RectSizeMethods == {m \in \h100 .. \h13f : m % 2 = 1}
ClippedCornerMethods == {m \in \h180 .. \h1bf : m % 2 = 1}

\* the channel's class state a started operation is given when the last
\* dispatch is the trigger of operation op
Accumulated(op) ==
    LET ch == [obs.before.channels[ExecChid] EXCEPT !.gfx = << >>]
    IN  CASE op = "fillrect" -> [ch EXCEPT !.gdi_rect_wh = obs.param]
          [] op = "fillrect_clipped" -> [ch EXCEPT !.gdi_rect_yx1 = obs.param]
          [] op = "copyarea" -> [ch EXCEPT !.blit_hw = obs.param]
          [] op = "m2mf" -> [ch EXCEPT !.m2mf_buffer_notify = obs.param]

\* the last dispatch started operation op once, with the accumulated state
StartedOnce(op) ==
    /\ StartedByLast = 1
    /\ LET gfx == s.channels[ExecChid].gfx
       IN  gfx[Len(gfx)] = [op |-> op, ch |-> Accumulated(op)]

\* the last dispatch, to a subchannel bound to class cls, started an
\* operation exactly when its method is in triggers, and then operation
\* op, once
TriggersOf(cls, triggers, op) ==
    (obs.op = "exec" /\ obs.subc = cls) =>
        IF obs.mthd \in triggers THEN StartedOnce(op) ELSE StartedByLast = 0

C32_WitnessClipped ==
    /\ obs.op = "exec"
    /\ obs.subc = ClassSubc.gdi
    /\ obs.mthd = \h181
    /\ StartedOnce("fillrect_clipped")
    /\ obs.before.channels[ExecChid].gdi_rect_yx0 = W(1, 2)

\* the transfer was started by 0x0ca and its completion written to the
\* notifier
C32_WitnessM2mf ==
    /\ obs.op = "exec"
    /\ obs.subc = ClassSubc.m2mf
    /\ obs.mthd = \h0ca
    /\ StartedOnce("m2mf")
    /\ s.vram # obs.before.vram

-----------------------------------------------------------------------------
(* The descriptor words the two translation modes read (SpecDma).          *)

\* the base geforce_dma_lin_lookup adds the adjust field and the offset to
LinearBase == Sub32(geforce_dma_lin_lookup(s, DmaObject, Zero), DescAdjust)

\* the frame geforce_dma_pt_lookup takes for an adjusted offset inside page
\* i (the access offset is 4096 * i minus the adjust field)
PageFrame(i) ==
    Frame(geforce_dma_pt_lookup(s, DmaObject,
                                Sub32(W(0, 4096 * i), DescAdjust)))

C33_WitnessPaged ==
    /\ obs.op = "dma"
    /\ DescWord(0) = Zero
    /\ DescWord(4) = W(\h00FF, \hFFFF)
    /\ DescWord(8) = W(0, \h5000)
    /\ DescWord(12) = W(0, \h7FFF)
    /\ obs.o = W(0, \h1FA0)
    /\ obs.abs = W(0, \h7FA0)
    /\ PageFrame(0) = W(0, \h5000)

-----------------------------------------------------------------------------
(* SpecHash: the starting probe offset of geforce_ramht_lookup over the    *)
(* table sizes the guest can select in PFIFO_RAMHT.                        *)

\* values of bits 16..23 of PFIFO_RAMHT: tables of 2^9, 2^10, 2^12, 2^16,
\* 2^28, 2^29 and 2^30 slots
HashExponents == {0, 1, 3, 7, 19, 20, 21}

HashHandles ==
    { Zero, W(0, \h00A1), W(\h8000, \h014F), W(\h1234, \h5678),
      W(\h2000, 0), W(\hFFFF, \hFFFF) }

HashChids == {0, 5, 15, 21}

InitHash ==
    /\ s = geforce_reset(GEFORCE_3)
    /\ GhostInit

\* a guest write to PFIFO_RAMHT
MmioWriteFifoRamht ==
    \E e \in HashExponents :
        /\ s' = mmio_write_fifo_ramht(s, W(e, 0))
        /\ obs' = NoObs
        /\ UNCHANGED <<pc, cur, log, swout, tick>>

\* the hash computation at the head of geforce_ramht_lookup
HashStart ==
    \E h \in HashHandles, c \in HashChids :
        /\ obs' = [op |-> "hash", handle |-> h, chid |-> c,
                   start |-> ramht_hash(s, h, c)]
        /\ UNCHANGED <<s, pc, cur, log, swout, tick>>

NextHash == MmioWriteFifoRamht \/ HashStart

SpecHash == InitHash /\ [][NextHash]_vars

\* the k-th chunk, bits wide, of a handle (9 <= bits < 32)
HandleChunk(handle, bits, k) ==
    IF k * bits >= 32 THEN Zero
    ELSE And32(Shr32(handle, k * bits), Sub32(Shl32(U32(1), bits), U32(1)))

\* the XOR of the handle's chunks and of (chid & 0xF) << (bits - 4)
FoldedHandle(handle, chid, bits) ==
    Xor32(Xor32(Xor32(HandleChunk(handle, bits, 0), HandleChunk(handle, bits, 1)),
                Xor32(HandleChunk(handle, bits, 2), HandleChunk(handle, bits, 3))),
          Shl32(U32(chid % 16), bits - 4))

\* start is 8 * folded as a number: a multiple of 8 whose eighth is folded
EightTimes(start, folded) ==
    /\ start[2] % 8 = 0
    /\ Shr32(start, 3) = folded

\* start is below 8 * 2^bits as a number
BelowTableSize(start, bits) ==
    bits + 3 >= 32 \/ Lt32(start, Shl32(U32(1), bits + 3))

\* C34: for every handle, channel id and table size exponent (bits >= 9),
\* the starting probe byte offset equals 8 * (XOR of the handle's
\* successive bits-wide chunks, XORed with (channel id & 0xF) << (bits - 4)),
\* is a multiple of 8 and is strictly below the table size 8 * 2^bits, so
\* the probe cursor can return to it.
C34_StartSlot ==
    obs.op = "hash" =>
        /\ EightTimes(obs.start,
                      FoldedHandle(obs.handle, obs.chid, ramht_bits(s)))
        /\ BelowTableSize(obs.start, ramht_bits(s))

\* what the code keeps: for tables of up to 2^28 slots the starting offset
\* is 8 times the folded handle and below the table size the probe wraps at
C34_StartSlotUpTo28 ==
    (obs.op = "hash" /\ ramht_bits(s) <= 28) =>
        /\ EightTimes(obs.start,
                      FoldedHandle(obs.handle, obs.chid, ramht_bits(s)))
        /\ Lt32(obs.start, ramht_size(s))

\* a table of 2^12 slots: handle 0x12345678 on channel 5 folds to
\* 0x678 ^ 0x345 ^ 0x12 ^ 0x500 = 0x02F and starts at 0x178
C34_Folded ==
    /\ obs.op = "hash"
    /\ ramht_bits(s) = 12
    /\ obs.handle = W(\h1234, \h5678)
    /\ obs.chid = 21
    /\ obs.start = W(0, \h0178)

\* a table of 2^30 slots: handle 0x20000000 folds to itself and its
\* starting offset, 2^32, is truncated to 0
C34_Truncated ==
    /\ obs.op = "hash"
    /\ ramht_bits(s) = 30
    /\ obs.handle = W(\h2000, 0)
    /\ obs.chid = 0
    /\ FoldedHandle(obs.handle, obs.chid, 30) = W(\h2000, 0)
    /\ obs.start = Zero

-----------------------------------------------------------------------------
(* The put index of the software-method queue (SpecSoft).                  *)

\* the last dispatch went to the software-method branch
Pushed ==
    /\ obs.op \in {"exec", "crash"}
    /\ obs.overrun \/ s.fifo_cache1_put # obs.before.fifo_cache1_put

\* the put index names an entry of the 64-entry arrays
PutInQueue(st) ==
    /\ st.fifo_cache1_put[1] = 0
    /\ st.fifo_cache1_put[2] % 4 = 0
    /\ st.fifo_cache1_put[2] < GEFORCE_CACHE1_SIZE * 4

\* C35: after any sequence of register writes (including writes to the
\* queue's own put and get registers) and method dispatches, the queue put
\* index is a multiple of 4 in [0, 256) whenever a software method is
\* pushed, so every push stores inside the 64-entry method and data arrays.
C35_PutIndexBound ==
    Pushed => (PutInQueue(obs.before) /\ obs.op = "exec" /\ ~obs.overrun)

\* what the code keeps: a dispatch that finds the put index inside the
\* queue leaves it inside the queue
C35_DispatcherKeepsBound ==
    (obs.op = "exec" /\ PutInQueue(obs.before)) =>
        (PutInQueue(s) /\ ~obs.overrun)

\* a software method pushed after the guest wrote 0x400 to the put
\* register, with the get register written in between
C35_PushOutside ==
    /\ Pushed
    /\ obs.before.fifo_cache1_put = W(0, \h0400)
    /\ log = <<"write", "get", "exec">>

-----------------------------------------------------------------------------
(* Runs of software methods.  The set-up is that of Spec (RaminImage); no  *)
(* object is bound, so every subchannel's engine is 0 and each method id   *)
(* of 0x040 or more is pushed to the software queue.  Channel 0 runs two   *)
(* parameters from method 0x7FF on subchannel 2, then a non-increment run  *)
(* of two on method 0x100, subchannel 6.  Channel 5 runs three parameters  *)
(* from method 0x7FE on subchannel 1, then one of method 0x040.            *)

RunProgram(c) ==
    IF c = 0
    THEN << <<\h00, W(\h0008, \h5FFC)>>,   \* header: 2 x method 0x7FF, subc 2
            <<\h04, W(0, \h0011)>>,
            <<\h08, W(0, \h0022)>>,
            <<\h0C, W(\h4008, \hC400)>>,   \* header: ni, 2 x method 0x100, subc 6
            <<\h10, W(0, \h0033)>>,
            <<\h14, W(0, \h0044)>> >>
    ELSE << <<\h00, W(\h000C, \h3FF8)>>,   \* header: 3 x method 0x7FE, subc 1
            <<\h04, W(0, \h0055)>>,
            <<\h08, W(0, \h0066)>>,
            <<\h0C, W(0, \h0077)>>,
            <<\h10, W(\h0004, \h0100)>>,   \* header: 1 x method 0x040, subc 0
            <<\h14, W(0, \h0088)>> >>

\* put values the guest writes
RunPutValues == {\h08, \h0C, \h10, \h18}

RunWords(ct) ==
    {<<Val(Xor32(RaminImage[i][1], ramin_flip(ct))), RaminImage[i][2]>> :
        i \in DOMAIN RaminImage}
    \cup UNION {{<<RingBase(c) + RunProgram(c)[i][1], RunProgram(c)[i][2]>> :
                    i \in DOMAIN RunProgram(c)} : c \in GuestChannels}

RunMemory(ct) ==
    LET cells == {<<w[1] + i, ByteOf(w[2], i)>> : w \in RunWords(ct), i \in 0 .. 3}
        nz == {c \in cells : c[2] # 0}
    IN  [a \in {c[1] : c \in nz} |-> (CHOOSE c \in nz : c[1] = a)[2]]

\* the device after the guest's set-up
RunImage(ct) == [FifoImage(ct) EXCEPT !.vram = RunMemory(ct)]

InitRun ==
    /\ \E ct \in Models : s = RunImage(ct)
    /\ pc = "idle"
    /\ cur = 0
    /\ log = [c \in GuestChannels |-> << >>]
    /\ swout = [c \in Channels |-> << >>]
    /\ obs = NoObs
    /\ tick = 0

\* A guest write to a channel's put register: geforce_mmio_write stores the
\* value and calls geforce_fifo_process.  The guest never moves a put
\* cursor backwards.
RunWritePut ==
    /\ pc = "idle"
    /\ \E addr \in PutAddrs :
         \E v \in RunPutValues :
         \E st1 \in {mmio_write_channel_put(s, channel_of(addr), U32(v))} :
           LET chid == channel_of(addr)
               old == curchid(s)
               idle == fifo_idle(st1, chid)
           IN  /\ InChannelWindow(addr)
               /\ channel_offset(addr) = \h40
               /\ v >= Val(channel_put(s, chid))
               /\ s' = IF idle THEN st1 ELSE fifo_switch(st1, chid)
               /\ pc' = IF idle THEN "idle" ELSE "pull"
               /\ cur' = IF idle THEN cur ELSE chid
               /\ obs' = [op |-> IF idle THEN "idle"
                                 ELSE IF old # chid THEN "switch" ELSE "put",
                          chid |-> chid, val |-> U32(v), stored |-> st1]
    /\ UNCHANGED <<log, swout, tick>>

NextRun == RunWritePut \/ FifoStep

SpecRun == InitRun /\ [][NextRun]_vars

\* the last pass of the loop dispatched a method that was pushed to the
\* software queue
RunPushed ==
    /\ obs.op = "step"
    /\ obs.exec
    /\ s.fifo_cache1_put # obs.before.fifo_cache1_put

\* the queue slot the last push stored to
PushedSlot == Val(obs.before.fifo_cache1_put) \div 4

\* bits 2-12 and bits 13-15 of a queue method word
EntryMethod(w) == Shr32(w, 2)[2] % 2048
EntrySubc(w) == Shr32(w, 13)[2] % 8

\* the queue entry of the last push gives back the dispatch
EntryIsDispatch ==
    /\ EntryMethod(s.fifo_cache1_method[PushedSlot]) = obs.mthd
    /\ EntrySubc(s.fifo_cache1_method[PushedSlot]) = obs.subc
    /\ s.fifo_cache1_data[PushedSlot] = obs.word

\* C36: for every dispatch the ring puller generates, method ids
\* incremented during a run included, the method word stored in the
\* software queue gives the dispatched method id in bits 2-12 and the
\* dispatched subchannel in bits 13-15, and the stored data word is the
\* parameter.
C36_EntryRoundTrip == RunPushed => EntryIsDispatch

\* the round trip for a method id that fits the 11 bits of the field
C36_RoundTripIn11Bits == (RunPushed /\ obs.mthd < 2048) => EntryIsDispatch

\* a run from method 0x7FF has reached method id 0x800, whose entry reads
\* as method 0 of subchannel 3
C36_RunPast7FF ==
    /\ RunPushed
    /\ obs.mthd = 2048
    /\ obs.subc = 2
    /\ EntryMethod(s.fifo_cache1_method[PushedSlot]) = 0
    /\ EntrySubc(s.fifo_cache1_method[PushedSlot]) = 3

-----------------------------------------------------------------------------
(* The decode chain as a function of the fetched word.  The words taken    *)
(* are all combinations of the bits the five tests look at (31, 30, 29,    *)
(* 17, 16, 1 and 0) with bits of the address, method, subchannel and       *)
(* count fields (bits 2, 13 and 18).                                       *)

DecodeWords ==
    { W(a + b + c + d + e + f, g + h + i + j) :
        a \in {0, \h8000}, b \in {0, \h4000}, c \in {0, \h2000},
        d \in {0, \h0002}, e \in {0, \h0001}, f \in {0, \h0004},
        g \in {0, 1}, h \in {0, 2}, i \in {0, 4}, j \in {0, \h2000} }

ControlKinds == {"oldjump", "jump", "call", "return", "header"}

\* the test of one branch of the chain
Matches(kind, word) ==
    IF kind = "oldjump" THEN IsOldJump(word)
    ELSE IF kind = "jump" THEN IsJump(word)
    ELSE IF kind = "call" THEN IsCall(word)
    ELSE IF kind = "return" THEN IsReturn(word)
    ELSE IsHeader(word)

\* the branch taken when the tests are made in the given order
RECURSIVE decode_in_order(_, _)
decode_in_order(order, word) ==
    IF order = << >> THEN "unexpected"
    ELSE IF Matches(Head(order), word) THEN Head(order)
    ELSE decode_in_order(Tail(order), word)

\* the order of the tests in geforce_fifo_process
CodeOrder == <<"oldjump", "jump", "call", "return", "header">>

\* every order the five tests can be made in
TestOrders ==
    { o \in [1 .. 5 -> ControlKinds] :
        \A i, j \in 1 .. 5 : o[i] = o[j] => i = j }

InitDecode ==
    /\ s = RunImage(GEFORCE_3)
    /\ pc = "idle"
    /\ cur = 0
    /\ log = << >>
    /\ swout = << >>
    /\ \E word \in DecodeWords : obs = [op |-> "fetch", word |-> word]
    /\ tick = 0

\* the chain is applied to the fetched word
DecodeWord ==
    /\ obs.op = "fetch"
    /\ obs' = [op |-> "decode", word |-> obs.word,
               kind |-> decode_in_order(CodeOrder, obs.word),
               matched |-> {k \in ControlKinds : Matches(k, obs.word)}]
    /\ UNCHANGED <<s, pc, cur, log, swout, tick>>

NextDecode == DecodeWord

SpecDecode == InitDecode /\ [][NextDecode]_vars

\* C37: no 32-bit word satisfies more than one of the five control
\* encodings (old jump, jump, call, return, method header), so the branch
\* taken for a word is the same in whatever order the tests are made.
C37_OrderIndependent ==
    obs.op = "decode" =>
        /\ Cardinality(obs.matched) <= 1
        /\ \A o \in TestOrders : decode_in_order(o, obs.word) = obs.kind
        /\ obs.kind = word_kind(obs.word)

\* the return word, which differs from a header only in bit 17, is taken by
\* the return test alone
C37_Witness ==
    /\ obs.op = "decode"
    /\ obs.word = W(\h0002, 0)
    /\ obs.matched = {"return"}
    /\ obs.kind = "return"

\* an old-style jump, which differs from a header only in bit 29
C37_WitnessOldJump ==
    /\ obs.op = "decode"
    /\ obs.word = W(\h2004, \h2004)
    /\ obs.matched = {"oldjump"}

-----------------------------------------------------------------------------
(* The ring as the guest sees it when a put write returns (SpecFlow).      *)

\* the put and get registers of channel c in the first channel window
PutRegister(c) == W(\h0080 + c, \h0040)
GetRegister(c) == W(\h0080 + c, \h0044)

\* channel c's get register reads the same as its put register
Drained(c) ==
    mmio_read_channel(s, GetRegister(c)) = mmio_read_channel(s, PutRegister(c))

\* the handler of a write to channel c's put register returns in this
\* step: geforce_fifo_process leaves its loop, or returns early from the
\* write itself
PutWriteReturns(c) ==
    /\ pc' = "idle"
    /\ \/ pc = "pull" /\ cur = c
       \/ pc = "idle" /\ obs'.op = "idle" /\ obs'.chid = c

\* C38: whenever the handler of a write to a channel's put register
\* returns, the channel's get register reads the same value as its put
\* register, whether the channel was already current, was switched in, or
\* was left inactive.
C38_DrainedOnReturn ==
    [][\A c \in GuestChannels : PutWriteReturns(c) => Drained(c)']_vars

\* channel 5 was switched in, its ring was processed up to 0x10 and the
\* loop has been left
C38_Witness ==
    /\ pc = "idle"
    /\ obs = NoObs
    /\ cur = 5
    /\ curchid(s) = 5
    /\ Len(log[5]) > 0
    /\ mmio_read_channel(s, GetRegister(5)) = W(0, \h10)
    /\ Drained(5)

\* a write of the value the put register of a channel that is not current
\* already holds: the handler returns early and the channel is left
\* inactive
C38_WitnessInactive ==
    /\ pc = "idle"
    /\ obs.op = "idle"
    /\ obs.chid # curchid(s)
    /\ obs.val # Zero
    /\ Drained(obs.chid)

\* a write to the put register of the current channel with nothing left to
\* fetch
C38_WitnessCurrent ==
    /\ pc = "idle"
    /\ obs.op = "idle"
    /\ obs.chid = curchid(s)
    /\ obs.val # Zero
    /\ Drained(obs.chid)

-----------------------------------------------------------------------------
(* The image-upload buffer (SpecIfc).                                      *)

\* the last dispatch was a data word of the image-from-host class in
\* buffered mode
IfcDataDispatched ==
    /\ obs.op \in {"exec", "crash"}
    /\ IfcDataWord(obs.before, obs)

\* C39: in buffered mode every data word of the image-from-host class is
\* stored at an index below the word count allocated by the most recent
\* size method; a data word before any size method, after the operation
\* has fired and released the buffer, or after a size method whose count
\* is 0 does not store through a missing buffer or past its end, and the
\* remaining-word counter never wraps below 0.
C39_BufferBound ==
    IfcDataDispatched =>
        /\ obs.op = "exec"
        /\ ~ obs.outside
        /\ obs.before.channels[ExecChid].ifc_words_left # Zero

\* what the code keeps: while a buffer is allocated the store index is
\* below its word count and the counter is the number of words still free
C39_InsideAllocated ==
    (IfcDataDispatched /\ ~ obs.before.channels[ExecChid].ifc_words.null) =>
        /\ obs.op = "exec"
        /\ ~ obs.outside
        /\ Add32(obs.before.channels[ExecChid].ifc_words_ptr,
                 obs.before.channels[ExecChid].ifc_words_left)
               = obs.before.channels[ExecChid].ifc_words.len
        /\ obs.before.channels[ExecChid].ifc_words_left # Zero

\* a data word stored through the released buffer after the operation has
\* fired; the counter has wrapped to 0xFFFFFFFF
C39_CounterWrapped ==
    /\ IfcDataDispatched
    /\ obs.op = "exec"
    /\ obs.outside
    /\ swout.sized
    /\ swout.fired = 1
    /\ s.channels[ExecChid].ifc_words_left = W(\hFFFF, \hFFFF)

-----------------------------------------------------------------------------
(* The software queue between the dispatcher and the host (SpecQueue).     *)
(* Methods are dispatched on a subchannel with no object bound, so each    *)
(* one is pushed; the n-th push carries the parameter n.  The host reads   *)
(* PFIFO_CACHE1_STATUS and, when it does not read empty, takes the entry   *)
(* at the get index and writes the next index to PFIFO_CACHE1_GET.         *)
(* swout.held is the set of slots holding an entry the host has not        *)
(* taken; swout.pushes counts the pushes.                                  *)

MaxPushes == 66

\* geforce_mmio_read, case 0x003214: PFIFO_CACHE1_STATUS
mmio_read_cache1_status(st) ==
    IF st.fifo_cache1_get # st.fifo_cache1_put THEN Zero ELSE W(0, \h0010)

\* geforce_mmio_read, cases 0x003210 and 0x003270
mmio_read_cache1_put(st) == st.fifo_cache1_put
mmio_read_cache1_get(st) == st.fifo_cache1_get

InitQueue ==
    /\ \E ct \in Models : s = ExecImage(ct)
    /\ pc = "idle"
    /\ cur = 0
    /\ log = << >>
    /\ swout = [held |-> {}, pushes |-> 0]
    /\ obs = NoObs
    /\ tick = 0

\* the dispatch of method 0x100 on subchannel 2 of the channel
QueuePush ==
    /\ swout.pushes < MaxPushes
    /\ \E r \in {geforce_execute_command(s, ExecChid, 2, \h100,
                                         U32(swout.pushes + 1), NowStamp)} :
         LET slot == Val(s.fifo_cache1_put) \div 4
         IN  /\ s' = r.st
             /\ obs' = [op |-> "push", slot |-> slot,
                        overwrote |-> slot \in swout.held, before |-> s]
             /\ swout' = [held |-> swout.held \cup {slot},
                          pushes |-> swout.pushes + 1]
    /\ UNCHANGED <<pc, cur, log, tick>>

\* the host takes the entry at the get index
QueueHostTake ==
    /\ mmio_read_cache1_status(s) = Zero
    /\ LET get == mmio_read_cache1_get(s)
       IN  /\ s' = mmio_write_cache1_get(s, Add32(get, U32(4)))
           /\ obs' = [op |-> "take", slot |-> Val(get) \div 4]
           /\ swout' = [swout EXCEPT !.held = @ \ {Val(get) \div 4}]
    /\ UNCHANGED <<pc, cur, log, tick>>

NextQueue == QueuePush \/ QueueHostTake

SpecQueue == InitQueue /\ [][NextQueue]_vars

\* the queue reads as empty through the put and get registers and through
\* the status register
ReadsEmpty ==
    /\ mmio_read_cache1_put(s) = mmio_read_cache1_get(s)
    /\ mmio_read_cache1_status(s) = W(0, \h0010)

\* C40: a push never overwrites a slot holding an entry the host has not
\* yet consumed, and the put index equals the get index only when the
\* queue is empty; 64 pushes without host consumption do not make the
\* queue read as empty.
C40_NoLoss ==
    /\ obs.op = "push" => ~ obs.overwrote
    /\ mmio_read_cache1_put(s) = mmio_read_cache1_get(s) => swout.held = {}
    /\ swout.held # {} => mmio_read_cache1_status(s) = Zero

\* what the code keeps: up to the 63rd push, when the queue cannot have
\* been full, no push overwrites a held entry and the queue reads as empty
\* exactly when none is held
C40_NoLossBelowFull ==
    swout.pushes < GEFORCE_CACHE1_SIZE =>
        /\ obs.op = "push" => ~ obs.overwrote
        /\ ReadsEmpty <=> swout.held = {}

\* 64 pushes without host consumption: every slot holds an entry and the
\* queue reads as empty
C40_FullReadsEmpty ==
    /\ swout.pushes = GEFORCE_CACHE1_SIZE
    /\ swout.held = 0 .. GEFORCE_CACHE1_SIZE - 1
    /\ ReadsEmpty

\* the 65th push has overwritten the first entry, which the host never took
C40_Overwritten ==
    /\ obs.op = "push"
    /\ obs.overwrote
    /\ obs.slot = 0
    /\ obs.before.fifo_cache1_data[0] = U32(1)
    /\ s.fifo_cache1_data[0] = U32(GEFORCE_CACHE1_SIZE + 1)

====
